---- MODULE Spec2Model ----
(***************************************************************************)
(* Model of the reconciliation engine of amiysync: src/src/merge.js,       *)
(* mergeDatasets (lines 209-449) and determineStatus (lines 185-197).      *)
(*                                                                         *)
(* JavaScript values are records [t, s, n]: a string is its sequence of    *)
(* one-character strings, a number is an integer count of hundredths of a  *)
(* currency unit (fixed point: 0.5 is 50), undefined and NaN are tags.     *)
(* Rows are tuples; JS column k is element k+1.                            *)
(*                                                                         *)
(* A reconciliation request is modelled around it: the HTTP handlers       *)
(* (server/routes/reconcile.ts, server/routes/complete.ts, its variant     *)
(* with the fee breakdown, and the serverless function of                  *)
(* src/healthChecks.js), runReconciliation (src/reconcileRunner.js), the   *)
(* row mapping of the two fetchers (src/shopify.js, src/shiprocket.js and  *)
(* its richer variant) and clearAndWriteSheet (src/sheets.js). Error       *)
(* messages are strings. The deadline timer may fire at any await.         *)
(*                                                                         *)
(* Three more components have their own state and specification: one tab   *)
(* of the spreadsheet under calls of clearAndWriteSheet, the paginated     *)
(* views with their five-minute cache, and shiprocketGet with the cached   *)
(* token of src/shiprocket.js.                                             *)
(***************************************************************************)
EXTENDS Integers, Sequences, FiniteSets, TLC

VARIABLES shopifyRows, shiprocketRows,
          shiprocketMapByCefId, shiprocketMapByOrderId, shiprocketMapByUte,
          reconciliation, stats, pc, next, rowSrc,
          handler, remittance, apiOrders, apiSettlements,
          timer, response, thrown, raised, tables, shiprocketCuts,
          steps, late,
          sheet, calls, triggers,
          view, cachedData, cachedTimestamp, now, viewReq, viewResponse,
          cachedToken, logins, gets

\* one tab of the spreadsheet and the calls of clearAndWriteSheet on it
sheetVars == <<sheet, calls, triggers>>

\* a paginated view: its cache, the clock and the request being served
viewVars == <<view, cachedData, cachedTimestamp, now, viewReq, viewResponse>>

\* the token cache of src/shiprocket.js and the calls of shiprocketGet
tokenVars == <<cachedToken, logins, gets>>

\* the components a reconciliation request does not touch
otherVars == <<sheetVars, viewVars, tokenVars>>

\* the state of one request around mergeDatasets
runVars == <<handler, remittance, apiOrders, apiSettlements,
             timer, response, thrown, raised, tables, shiprocketCuts,
             steps, late, otherVars>>

\* mergeDatasets and the request around it
reconVars == <<shopifyRows, shiprocketRows,
               shiprocketMapByCefId, shiprocketMapByOrderId, shiprocketMapByUte,
               reconciliation, stats, pc, next, rowSrc,
               handler, remittance, apiOrders, apiSettlements,
               timer, response, thrown, raised, tables, shiprocketCuts,
               steps, late>>

vars == <<shopifyRows, shiprocketRows,
          shiprocketMapByCefId, shiprocketMapByOrderId, shiprocketMapByUte,
          reconciliation, stats, pc, next, rowSrc,
          handler, remittance, apiOrders, apiSettlements,
          timer, response, thrown, raised, tables, shiprocketCuts,
          steps, late, sheetVars, viewVars, tokenVars>>

----------------------------------------------------------------------------
(* Bounds of the model *)

\* the tabs clearAndWriteSheet is called for
Tables == {"Shopify_Orders", "Shiprocket_Settlements", "Shiprocket_Cuts",
           "Reconciliation"}

MaxOrders == 2

MaxSettlements == 2

----------------------------------------------------------------------------
(* JavaScript values *)

Str(s) == [t |-> "str", s |-> s, n |-> 0]

Num(n) == [t |-> "num", s |-> <<>>, n |-> n]

Undef == [t |-> "undef", s |-> <<>>, n |-> 0]

NaN == [t |-> "nan", s |-> <<>>, n |-> 0]

\* row[k] of a JS array: undefined past the end
Col(row, k) == IF k + 1 \in DOMAIN row THEN row[k + 1] ELSE Undef

\* JS truthiness: "", 0, NaN and undefined are falsy
Truthy(v) ==
    CASE v.t = "str" -> v.s # <<>>
      [] v.t = "num" -> v.n # 0
      [] OTHER -> FALSE

\* a || d
OrElse(v, d) == IF Truthy(v) THEN v ELSE d

Digits == <<"0", "1", "2", "3", "4", "5", "6", "7", "8", "9">>

IsDigit(c) == \E d \in DOMAIN Digits : Digits[d] = c

DigitVal(c) == (CHOOSE d \in DOMAIN Digits : Digits[d] = c) - 1

RECURSIVE NatToChars(_)
NatToChars(k) ==
    IF k < 10 THEN <<Digits[k + 1]>>
    ELSE NatToChars(k \div 10) \o <<Digits[(k % 10) + 1]>>

\* Number.prototype.toString of a non-negative amount held in hundredths
NumToChars(n) ==
    LET whole == n \div 100
        frac  == n % 100
    IN  IF frac = 0 THEN NatToChars(whole)
        ELSE IF frac % 10 = 0
             THEN NatToChars(whole) \o <<".", Digits[(frac \div 10) + 1]>>
             ELSE NatToChars(whole) \o
                  <<".", Digits[(frac \div 10) + 1], Digits[(frac % 10) + 1]>>

\* String(v)
ToChars(v) ==
    CASE v.t = "str" -> v.s
      [] v.t = "num" -> NumToChars(v.n)
      [] v.t = "nan" -> <<"N", "a", "N">>
      [] OTHER -> <<"u", "n", "d", "e", "f", "i", "n", "e", "d">>

RECURSIVE TrimStart(_)
TrimStart(s) ==
    IF s # <<>> /\ Head(s) = " " THEN TrimStart(Tail(s)) ELSE s

RECURSIVE TrimEnd(_)
TrimEnd(s) ==
    IF s # <<>> /\ s[Len(s)] = " " THEN TrimEnd(SubSeq(s, 1, Len(s) - 1)) ELSE s

\* String.prototype.trim
Trim(s) == TrimEnd(TrimStart(s))

RECURSIVE StripHash_All(_)
\* bug: every leading "#" removed, as /^#+/ would
StripHash_All(s) == IF s # <<>> /\ Head(s) = "#" THEN StripHash_All(Tail(s)) ELSE s

\* s.replace(/^#/, "")
StripHash(s) == IF s # <<>> /\ Head(s) = "#" THEN Tail(s) ELSE s

UpperOf(c) ==
    CASE c = "c" -> "C" [] c = "o" -> "O" [] c = "d" -> "D"
      [] c = "u" -> "U" [] c = "p" -> "P" [] c = "i" -> "I"
      [] OTHER -> c

LowerOf(c) ==
    CASE c = "C" -> "c" [] c = "O" -> "o" [] c = "D" -> "d"
      [] c = "U" -> "u" [] c = "P" -> "p" [] c = "I" -> "i"
      [] OTHER -> c

\* String.prototype.toUpperCase / toLowerCase
ToUpperCase(s) == [k \in DOMAIN s |-> UpperOf(s[k])]

ToLowerCase(s) == [k \in DOMAIN s |-> LowerOf(s[k])]

\* String.prototype.includes
Includes(s, sub) ==
    \E k \in 1..(Len(s) - Len(sub) + 1) : SubSeq(s, k, k + Len(sub) - 1) = sub

RECURSIVE DigitsPrefix(_)
DigitsPrefix(s) ==
    IF s # <<>> /\ IsDigit(Head(s)) THEN <<Head(s)>> \o DigitsPrefix(Tail(s))
    ELSE <<>>

RECURSIVE CharsToNat(_)
CharsToNat(s) ==
    IF s = <<>> THEN 0
    ELSE 10 * CharsToNat(SubSeq(s, 1, Len(s) - 1)) + DigitVal(s[Len(s)])

\* parseFloat of a string: leading blanks skipped, then the longest numeric
\* prefix (digits, optionally "." and up to two more digits); NaN without one
ParseChars(s) ==
    LET t     == TrimStart(s)
        whole == DigitsPrefix(t)
        rest  == SubSeq(t, Len(whole) + 1, Len(t))
        fracs == IF rest # <<>> /\ Head(rest) = "."
                 THEN DigitsPrefix(Tail(rest)) ELSE <<>>
        f2    == IF Len(fracs) >= 2 THEN SubSeq(fracs, 1, 2)
                 ELSE IF Len(fracs) = 1 THEN fracs \o <<"0">> ELSE <<"0", "0">>
    IN  IF whole = <<>> THEN NaN
        ELSE Num(100 * CharsToNat(whole) + CharsToNat(f2))

\* parseFloat(v)
ParseFloat(v) ==
    CASE v.t = "num" -> v
      [] v.t = "str" -> ParseChars(v.s)
      [] OTHER -> NaN

\* parseFloat(v) || 0, as an integer number of hundredths
ParseFloatOr0(v) == OrElse(ParseFloat(v), Num(0)).n

Abs(x) == IF x < 0 THEN -x ELSE x

----------------------------------------------------------------------------
(* determineStatus, src/src/merge.js:185-197 *)

\* the tolerance 0.5 of merge.js:192, in hundredths
Tolerance == 50

\* bug: the tolerance compared with <= instead of <
determineStatus_Inclusive(isCod, hasSettlement, difference) ==
    IF ~hasSettlement
    THEN (IF isCod THEN "Pending Remittance" ELSE "Prepaid - No Remittance")
    ELSE IF Abs(difference) <= Tolerance THEN "Reconciled"
    ELSE "Mismatch"

\* bug: the two statuses of an order without a settlement swapped
determineStatus_Swapped(isCod, hasSettlement, difference) ==
    IF ~hasSettlement
    THEN (IF isCod THEN "Prepaid - No Remittance" ELSE "Pending Remittance")
    ELSE IF Abs(difference) < Tolerance THEN "Reconciled"
    ELSE "Mismatch"

determineStatus(isCod, hasSettlement, difference) ==
    IF ~hasSettlement
    THEN (IF isCod THEN "Pending Remittance" ELSE "Prepaid - No Remittance")
    ELSE IF Abs(difference) < Tolerance THEN "Reconciled"
    ELSE "Mismatch"

----------------------------------------------------------------------------
(* The three settlement maps, src/src/merge.js:216-253 *)

EmptyMap == [k \in {} |-> <<>>]

\* Map.prototype.set
MapSet(m, k, v) == [x \in (DOMAIN m) \cup {k} |-> IF x = k THEN v ELSE m[x]]

\* Map.prototype.get: hit is FALSE for the undefined of an absent key
MapGet(m, k) ==
    IF k \in DOMAIN m THEN [hit |-> TRUE, row |-> m[k]]
    ELSE [hit |-> FALSE, row |-> <<>>]

\* the key of a settlement row taken from JS column c: String(row[c]).trim()
SettlementKey(row, c) == Trim(ToChars(Col(row, c)))

\* if (key) map.set(key, row)
SetIfKey(m, key, row) == IF key # <<>> THEN MapSet(m, key, row) ELSE m

\* the body of shiprocketRows.forEach, lines 222-253
IndexRow(maps, row) ==
    [cef |-> SetIfKey(maps.cef, SettlementKey(row, 0), row),
     ord |-> SetIfKey(maps.ord, SettlementKey(row, 2), row),
     ute |-> SetIfKey(maps.ute, SettlementKey(row, 1), row)]

RECURSIVE IndexRows(_, _)
IndexRows(rows, k) ==
    IF k = 0 THEN [cef |-> EmptyMap, ord |-> EmptyMap, ute |-> EmptyMap]
    ELSE IndexRow(IndexRows(rows, k - 1), rows[k])

----------------------------------------------------------------------------
(* One order of shopifyRows.forEach, src/src/merge.js:301-430 *)

cUnknown == <<"U", "n", "k", "n", "o", "w", "n">>

cCOD == <<"C", "O", "D">>

ccod == <<"c", "o", "d">>

\* lines 303-304
OrderIdString(o) == Trim(ToChars(Col(o, 0)))

OrderName(o) == Trim(ToChars(Col(o, 1)))

\* lines 306-308
PaymentMethod(o) == OrElse(Col(o, 4), Str(<<>>))

CodPrepaidStatus(o) == OrElse(Col(o, 8), Str(cUnknown))

ShopifyTotal(o) == ParseFloatOr0(Col(o, 5))

\* bug: || without its short circuit, the payment method always lower-cased
Throws_NoShortCircuit(o) ==
    \/ CodPrepaidStatus(o).t # "str"
    \/ PaymentMethod(o).t # "str"

\* lines 311-313 raise a TypeError when toUpperCase or toLowerCase is called
\* on a value that is no string; || evaluates its right side only when the
\* left side is false
Throws(o) ==
    \/ CodPrepaidStatus(o).t # "str"
    \/ /\ ToUpperCase(CodPrepaidStatus(o).s) # cCOD
       /\ PaymentMethod(o).t # "str"

\* bug: the payment type decides alone once it is present and not "Unknown"
IsCod_TypeFirst(o) ==
    IF CodPrepaidStatus(o).s # cUnknown
    THEN ToUpperCase(CodPrepaidStatus(o).s) = cCOD
    ELSE Includes(ToLowerCase(PaymentMethod(o).s), ccod)

\* lines 311-313
IsCod(o) ==
    \/ ToUpperCase(CodPrepaidStatus(o).s) = cCOD
    \/ Includes(ToLowerCase(PaymentMethod(o).s), ccod)

\* lines 327-329
OrderNameWithoutHash(o) ==
    IF OrderName(o) # <<>> THEN Trim(StripHash(OrderName(o))) ELSE <<>>

\* bug: the settlement-system order id tried before the channel order id
MatchOrder_IdFirst(o, maps) ==
    LET miss == [hit |-> FALSE, row |-> <<>>]
        s2 == IF OrderIdString(o) # <<>>
              THEN MapGet(maps.ord, OrderIdString(o)) ELSE miss
        s1 == IF ~s2.hit /\ OrderNameWithoutHash(o) # <<>>
              THEN MapGet(maps.cef, OrderNameWithoutHash(o)) ELSE s2
        s3 == IF ~s1.hit /\ OrderName(o) # <<>>
              THEN MapGet(maps.ute, OrderName(o)) ELSE s1
    IN  [settlement |-> s3,
         matchMethod |-> IF s2.hit THEN "shiprocket_order_id"
                         ELSE IF s1.hit THEN "channel_order_id"
                         ELSE IF s3.hit THEN "ute"
                         ELSE "none"]

\* lines 321-351: the three lookups, first hit wins
MatchOrder(o, maps) ==
    LET miss == [hit |-> FALSE, row |-> <<>>]
        s1 == IF OrderNameWithoutHash(o) # <<>>
              THEN MapGet(maps.cef, OrderNameWithoutHash(o)) ELSE miss
        s2 == IF ~s1.hit /\ OrderIdString(o) # <<>>
              THEN MapGet(maps.ord, OrderIdString(o)) ELSE s1
        s3 == IF ~s2.hit /\ OrderName(o) # <<>>
              THEN MapGet(maps.ute, OrderName(o)) ELSE s2
    IN  [settlement |-> s3,
         matchMethod |-> IF s1.hit THEN "channel_order_id"
                         ELSE IF s2.hit THEN "shiprocket_order_id"
                         ELSE IF s3.hit THEN "ute"
                         ELSE "none"]

\* lines 364-385: settlement details, defaults when nothing matched
SettlementNum(m, c) == IF m.settlement.hit THEN ParseFloatOr0(Col(m.settlement.row, c)) ELSE 0

SettlementText(m, c) ==
    IF m.settlement.hit THEN OrElse(Col(m.settlement.row, c), Str(<<>>)) ELSE Str(<<>>)

\* bug: the operands of the subtraction exchanged
Difference_Reversed(o, m) == SettlementNum(m, 9) - ShopifyTotal(o)

\* lines 387-388
Difference(o, m) == ShopifyTotal(o) - SettlementNum(m, 9)

StatusOf(o, m) == determineStatus(IsCod(o), m.settlement.hit, Difference(o, m))

\* lines 402-421
ReconciliationRow(o, m) ==
    << Str(OrderIdString(o)),
       Str(OrderName(o)),
       OrElse(Col(o, 2), Str(<<>>)),
       Num(ShopifyTotal(o)),
       Num(SettlementNum(m, 9)),
       Num(Difference(o, m)),
       CodPrepaidStatus(o),
       StatusOf(o, m),
       m.matchMethod,
       SettlementText(m, 3),
       Num(SettlementNum(m, 5)),
       Num(SettlementNum(m, 6)),
       Num(SettlementNum(m, 7)),
       Num(SettlementNum(m, 8)),
       Num(SettlementNum(m, 12)),
       SettlementText(m, 10),
       SettlementText(m, 11),
       Str(<<>>) >>

\* bug: a row is dropped when a row of the same order id is already there
PushRow_Dedup(rows, row) ==
    IF \E k \in DOMAIN rows : Col(rows[k], 0) = Col(row, 0) THEN rows
    ELSE Append(rows, row)

\* line 423: reconciliation.push(reconciliationRow)
PushRow(rows, row) == Append(rows, row)

\* lines 315-319, 353-360, 390-399: the counters one processed order changes
Bump(s, field) == [s EXCEPT ![field] = @ + 1]

\* bug: a Mismatch is counted under no status
CountOrder_NoMismatch(s, o, m) ==
    LET s1 == Bump(s, IF IsCod(o) THEN "cod" ELSE "prepaid")
        s2 == CASE m.matchMethod = "channel_order_id" -> Bump(s1, "matchedByName")
                [] m.matchMethod = "shiprocket_order_id" -> Bump(s1, "matchedById")
                [] m.matchMethod = "ute" -> Bump(s1, "matchedByNone")
                [] OTHER -> s1
        st == StatusOf(o, m)
    IN  CASE st = "Reconciled" -> Bump(s2, "reconciled")
          [] st = "Pending Remittance" -> Bump(s2, "pendingRemittance")
          [] st = "Prepaid - No Remittance" -> Bump(s2, "prepaidNoRemittance")
          [] OTHER -> s2

\* lines 315-319, 353-360, 390-399: the counters one processed order changes
CountOrder(s, o, m) ==
    LET s1 == Bump(s, IF IsCod(o) THEN "cod" ELSE "prepaid")
        s2 == CASE m.matchMethod = "channel_order_id" -> Bump(s1, "matchedByName")
                [] m.matchMethod = "shiprocket_order_id" -> Bump(s1, "matchedById")
                [] m.matchMethod = "ute" -> Bump(s1, "matchedByNone")
                [] OTHER -> s1
        st == StatusOf(o, m)
    IN  CASE st = "Reconciled" -> Bump(s2, "reconciled")
          [] st = "Mismatch" -> Bump(s2, "mismatches")
          [] st = "Pending Remittance" -> Bump(s2, "pendingRemittance")
          [] st = "Prepaid - No Remittance" -> Bump(s2, "prepaidNoRemittance")
          [] OTHER -> s2

\* lines 288-299
InitialStats(n) ==
    [totalOrders |-> n, cod |-> 0, prepaid |-> 0, reconciled |-> 0,
     mismatches |-> 0, pendingRemittance |-> 0, prepaidNoRemittance |-> 0,
     matchedByName |-> 0, matchedById |-> 0, matchedByNone |-> 0]

----------------------------------------------------------------------------
(* Inputs: rows in the documented formats, merge.js:203-206 *)

\* [order_id, order_name, order_date, customer_name, payment_method,
\*  order_total, financial_status, fulfillment_status, cod_prepaid]
Order(id, name, method, total, ptype) ==
    << id, name, Str(<<"d", "1">>), Str(<<"A", "n">>), method, total,
       Str(<<"p", "a", "i", "d">>), Str(<<>>), ptype >>

\* [cef_id, ute, order_id, awb, order_amount, shipping_charges, cod_charges,
\*  adjustments, rto_reversal, net_settlement, remittance_date, batch_id]
Settlement(cef, ute, oid, awb, net, batch) ==
    << cef, ute, oid, awb, Num(119000), Num(10000), Num(5000), Num(-100),
       Num(0), net, Str(<<"d", "9">>), batch >>

c32 == <<"3", "2">>

cHash32 == <<"#", "3", "2">>

cU7 == <<"U", "7">>

cPrepaid == <<"P", "r", "e", "p", "a", "i", "d">>

crazorpay == <<"r", "a", "z", "o", "r", "p", "a", "y">>

cNotANumber == <<"n", "o", "t", "-", "a", "-", "n", "u", "m", "b", "e", "r">>

\* orders that differ in their identifiers; the last one raises a TypeError
MatchOrders ==
    { Order(Str(<<"1">>), Str(cHash32), Str(ccod), Num(1000), Str(cCOD)),
      Order(Num(200), Str(<<"#", "3">>), Str(ccod), Num(1000), Str(cCOD)),
      Order(Str(<<"9">>), Str(<<"u", "7">>), Str(ccod), Num(1000), Str(cCOD)),
      Order(Str(<<" ", "1">>), Str(<<"#">>), Str(ccod), Num(1000), Str(cCOD)),
      Order(Str(<<"9">>), Str(<<" ", "#", "#", "3", "2", " ">>), Str(ccod), Num(1000), Str(cCOD)),
      Order(Str(<<"2">>), Undef, Str(ccod), Num(1000), Str(cCOD)),
      Order(Str(<<"1">>), Str(cHash32), Num(500), Num(1000), Str(cPrepaid)) }

\* settlements that differ in their three keys
MatchSettlements ==
    { Settlement(Str(c32), Str(<<>>), Str(<<"5">>), Str(<<"A", "1">>), Num(1000), Str(<<"B", "1">>)),
      Settlement(Str(<<" ", "3", "2", " ">>), Str(cU7), Str(<<"1">>), Str(<<"A", "2">>), Num(850), Str(<<"B", "2">>)),
      Settlement(Str(<<"3">>), Str(cHash32), Num(200), Str(<<"A", "3">>), Num(1000), Str(<<"B", "3">>)),
      Settlement(Str(cHash32), Str(<<"u", "7", "7">>), Str(<<>>), Str(<<"A", "4">>), Num(1000), Num(700)),
      Settlement(Undef, Undef, Undef, Str(<<"A", "5">>), Num(1000), Str(<<"B", "5">>)) }

\* orders that differ in payment method, total and payment type: the first
\* has identifiers no settlement carries, the others share "1" and "#32";
\* the last two raise a TypeError
StatusOrders ==
    { Order(Str(<<"4">>), Str(<<"#", "4", "0">>), Str(ccod), Num(1000), Str(cCOD)),
      Order(Str(<<"1">>), Str(cHash32), Str(crazorpay), Num(1049), Str(cPrepaid)),
      Order(Str(<<"1">>), Str(cHash32), Str(cCOD), Num(1050), Undef),
      Order(Str(<<"1">>), Str(cHash32), Str(ccod), Str(<<"1", "0">>), Str(cPrepaid)),
      Order(Str(<<"1">>), Str(cHash32), Str(crazorpay), Num(1049), Str(ccod)),
      Order(Str(<<"1">>), Str(cHash32), Str(ccod), Str(cNotANumber), Str(cUnknown)),
      Order(Str(<<"1">>), Str(cHash32), Num(500), Num(1000), Str(cCOD)),
      Order(Str(<<"1">>), Str(cHash32), Num(500), Num(1000), Str(cPrepaid)),
      Order(Str(<<"1">>), Str(cHash32), Str(ccod), Num(1000), Num(700)) }

\* settlements of order number 32 with different net amounts, the last with
\* a non-numeric net amount and a freight column
StatusSettlements ==
    { Settlement(Str(c32), Str(<<>>), Str(<<"5">>), Str(<<"A", "1">>), Num(1000), Str(<<"B", "1">>)),
      Settlement(Str(c32), Str(<<>>), Str(<<"5">>), Str(<<"A", "2">>), Num(1049), Str(<<"B", "2">>)),
      Settlement(Str(c32), Str(<<>>), Str(<<"5">>), Str(<<>>), Str(<<"x">>), Str(<<"B", "4">>))
          \o <<Num(250)>> }

SeqsUpTo(S, n) == UNION { [1..k -> S] : k \in 0..n }

----------------------------------------------------------------------------
(* mergeDatasets as a state machine *)

\* the tables of the spreadsheet, untouched
NoTables == [t \in Tables |-> "old"]

NoResponse == [status |-> 0, message |-> ""]

\* mergeDatasets called on its own, outside any request
\* no call of clearAndWriteSheet is modelled
NoSheet ==
    /\ sheet = <<>>
    /\ calls = <<>>
    /\ triggers = {}

\* no paginated view is modelled
NoView ==
    /\ view = "none"
    /\ cachedData = <<>>
    /\ cachedTimestamp = 0
    /\ now = 0
    /\ viewReq = [pc |-> "none"]
    /\ viewResponse = [status |-> 0]

\* no call of shiprocketGet is modelled
NoGet ==
    /\ cachedToken = 0
    /\ logins = 0
    /\ gets = <<>>

NoRequest ==
    /\ handler = "none"
    /\ remittance = "none"
    /\ apiOrders = <<>>
    /\ apiSettlements = <<>>
    /\ timer = "none"
    /\ response = NoResponse
    /\ thrown = ""
    /\ raised = ""
    /\ tables = NoTables
    /\ shiprocketCuts = 0
    /\ steps = <<>>
    /\ late = FALSE

InitWith(orders, settlements) ==
    /\ shopifyRows \in SeqsUpTo(orders, MaxOrders)
    /\ shiprocketRows \in SeqsUpTo(settlements, MaxSettlements)
    /\ shiprocketMapByCefId = EmptyMap
    /\ shiprocketMapByOrderId = EmptyMap
    /\ shiprocketMapByUte = EmptyMap
    /\ reconciliation = <<>>
    /\ stats = InitialStats(0)
    /\ pc = "start"
    /\ next = 1
    /\ rowSrc = <<>>
    /\ NoRequest
    /\ NoSheet
    /\ NoView
    /\ NoGet

\* no reconciliation is modelled
NoReconciliation ==
    /\ shopifyRows = <<>>
    /\ shiprocketRows = <<>>
    /\ shiprocketMapByCefId = EmptyMap
    /\ shiprocketMapByOrderId = EmptyMap
    /\ shiprocketMapByUte = EmptyMap
    /\ reconciliation = <<>>
    /\ stats = InitialStats(0)
    /\ pc = "none"
    /\ next = 1
    /\ rowSrc = <<>>
    /\ NoRequest

Init == InitWith(MatchOrders, MatchSettlements)

InitStatus == InitWith(StatusOrders, StatusSettlements)

Maps == [cef |-> shiprocketMapByCefId, ord |-> shiprocketMapByOrderId,
         ute |-> shiprocketMapByUte]

\* lines 216-299: the maps are built and the counters created
BuildIndexes ==
    /\ pc = "start"
    /\ LET maps == IndexRows(shiprocketRows, Len(shiprocketRows))
       IN  /\ shiprocketMapByCefId' = maps.cef
           /\ shiprocketMapByOrderId' = maps.ord
           /\ shiprocketMapByUte' = maps.ute
    /\ stats' = InitialStats(Len(shopifyRows))
    /\ pc' = "merge"
    /\ UNCHANGED <<shopifyRows, shiprocketRows, reconciliation, next, rowSrc>>
    /\ UNCHANGED runVars

\* lines 301-423: one order processed without an exception
MergeRow ==
    /\ pc = "merge"
    /\ next <= Len(shopifyRows)
    /\ ~Throws(shopifyRows[next])
    /\ LET o == shopifyRows[next]
           m == MatchOrder(o, Maps)
       IN  /\ reconciliation' = PushRow(reconciliation, ReconciliationRow(o, m))
           /\ stats' = CountOrder(stats, o, m)
    /\ rowSrc' = Append(rowSrc, next)
    /\ next' = next + 1
    /\ UNCHANGED <<shopifyRows, shiprocketRows, shiprocketMapByCefId,
                   shiprocketMapByOrderId, shiprocketMapByUte, pc>>
    /\ UNCHANGED runVars

\* lines 424-429: the exception of one order is caught and logged
MergeRowCatch ==
    /\ pc = "merge"
    /\ next <= Len(shopifyRows)
    /\ Throws(shopifyRows[next])
    /\ next' = next + 1
    /\ UNCHANGED <<shopifyRows, shiprocketRows, shiprocketMapByCefId,
                   shiprocketMapByOrderId, shiprocketMapByUte,
                   reconciliation, stats, pc, rowSrc>>
    /\ UNCHANGED runVars

\* lines 432-448: return reconciliation
Return ==
    /\ pc = "merge"
    /\ next > Len(shopifyRows)
    /\ pc' = "done"
    /\ UNCHANGED <<shopifyRows, shiprocketRows, shiprocketMapByCefId,
                   shiprocketMapByOrderId, shiprocketMapByUte,
                   reconciliation, stats, next, rowSrc>>
    /\ UNCHANGED runVars

Next == BuildIndexes \/ MergeRow \/ MergeRowCatch \/ Return

Spec == Init /\ [][Next]_vars

SpecStatus == InitStatus /\ [][Next]_vars

TypeOK ==
    /\ pc \in {"start", "merge", "done"}
    /\ next \in 1..(Len(shopifyRows) + 1)
    /\ Len(rowSrc) = Len(reconciliation)

----------------------------------------------------------------------------
(* Reading the result *)

\* the rows produced so far, by position
Rows == DOMAIN reconciliation

\* the input order a row was built from
OrderOf(k) == shopifyRows[rowSrc[k]]

RowTotal(k) == Col(reconciliation[k], 3).n

RowNet(k) == Col(reconciliation[k], 4).n

RowDifference(k) == Col(reconciliation[k], 5).n

RowStatus(k) == Col(reconciliation[k], 7)

RowMatchMethod(k) == Col(reconciliation[k], 8)

----------------------------------------------------------------------------
(* C1 *)

\* C1 (as claimed): every order that is not COD gets the status
\* "Prepaid - No Remittance", with or without a matched settlement and
\* whatever the amounts are.
C1_PrepaidAlwaysNoRemittance ==
    \A k \in Rows :
        ~IsCod(OrderOf(k)) => RowStatus(k) = "Prepaid - No Remittance"

----------------------------------------------------------------------------
(* C2 *)

----------------------------------------------------------------------------
(* C3 *)

\* the orders the loop has gone through
Processed == IF pc = "start" THEN {} ELSE 1..(next - 1)

\* none of the three lookups of order o finds a settlement
C3_NoLookupFinds(o) ==
    /\ OrderNameWithoutHash(o) \notin DOMAIN shiprocketMapByCefId
    /\ OrderIdString(o) \notin DOMAIN shiprocketMapByOrderId
    /\ OrderName(o) \notin DOMAIN shiprocketMapByUte

\* C3: every COD order for which none of the three lookups finds a
\* settlement still gets its row, with status "Pending Remittance",
\* matchMethod "none" and net amount 0.
C3_PendingWhenUnmatched ==
    \A q \in Processed :
        LET o == shopifyRows[q]
        IN  (~Throws(o) /\ IsCod(o) /\ C3_NoLookupFinds(o)) =>
                /\ Cardinality({k \in Rows : rowSrc[k] = q}) = 1
                /\ \A k \in Rows :
                       rowSrc[k] = q =>
                           /\ RowStatus(k) = "Pending Remittance"
                           /\ RowMatchMethod(k) = "none"
                           /\ RowNet(k) = 0

\* a finished run with settlements none of which belongs to a COD order
C3_Witness ==
    /\ pc = "done"
    /\ Len(shiprocketRows) > 0
    /\ \E k \in Rows :
          /\ IsCod(OrderOf(k)) /\ C3_NoLookupFinds(OrderOf(k))
          /\ RowStatus(k) = "Pending Remittance"
          /\ RowMatchMethod(k) = "none"

----------------------------------------------------------------------------
(* C4 *)

\* the classification as claimed: the payment type, when present and not
\* "Unknown", decides alone
C4_ClaimedCod(o) ==
    IF Truthy(Col(o, 8)) /\ Col(o, 8).s # cUnknown
    THEN ToUpperCase(Col(o, 8).s) = cCOD
    ELSE Includes(ToLowerCase(Col(o, 4).s), ccod)

C4_TypeOrMethodCod(o) ==
    \/ ToUpperCase(IF Truthy(Col(o, 8)) THEN Col(o, 8).s ELSE cUnknown) = cCOD
    \/ Includes(ToLowerCase(Col(o, 4).s), ccod)

----------------------------------------------------------------------------
(* C5 *)

\* the positions of the settlements whose key in JS column c is key
WithKey(c, key) ==
    {i \in DOMAIN shiprocketRows : SettlementKey(shiprocketRows[i], c) = key}

\* the last settlement in input order whose key in column c is key
LastWithKey(c, key) ==
    shiprocketRows[CHOOSE i \in WithKey(c, key) : \A j \in WithKey(c, key) : j <= i]

\* row k shows the fields of settlement s
Carries(k, s) ==
    /\ RowNet(k) = ParseFloatOr0(Col(s, 9))
    /\ Col(reconciliation[k], 9) = OrElse(Col(s, 3), Str(<<>>))
    /\ Col(reconciliation[k], 15) = OrElse(Col(s, 10), Str(<<>>))
    /\ Col(reconciliation[k], 16) = OrElse(Col(s, 11), Str(<<>>))

\* C5: the lookups are tried in the order channel order id, settlement-system
\* order id, secondary id, and the first hit is returned: a channel-id match
\* wins over a settlement-order-id match of another record, and a secondary-id
\* match is returned only when the two other lookups miss.
C5_MatchPriority ==
    \A k \in Rows :
        LET o  == OrderOf(k)
            h1 == OrderNameWithoutHash(o) # <<>> /\ WithKey(0, OrderNameWithoutHash(o)) # {}
            h2 == OrderIdString(o) # <<>> /\ WithKey(2, OrderIdString(o)) # {}
            h3 == OrderName(o) # <<>> /\ WithKey(1, OrderName(o)) # {}
        IN  /\ h1 =>
                /\ RowMatchMethod(k) = "channel_order_id"
                /\ Carries(k, LastWithKey(0, OrderNameWithoutHash(o)))
            /\ (~h1 /\ h2) =>
                /\ RowMatchMethod(k) = "shiprocket_order_id"
                /\ Carries(k, LastWithKey(2, OrderIdString(o)))
            /\ (~h1 /\ ~h2 /\ h3) =>
                /\ RowMatchMethod(k) = "ute"
                /\ Carries(k, LastWithKey(1, OrderName(o)))
            /\ (~h1 /\ ~h2 /\ ~h3) => RowMatchMethod(k) = "none"

\* an order whose channel id and order id match two different settlements
\* and whose row shows the channel-id one
C5_Witness ==
    \E k \in Rows :
        LET o == OrderOf(k)
        IN  /\ WithKey(0, OrderNameWithoutHash(o)) # {}
            /\ WithKey(2, OrderIdString(o)) # {}
            /\ LastWithKey(0, OrderNameWithoutHash(o)) # LastWithKey(2, OrderIdString(o))
            /\ ~Carries(k, LastWithKey(2, OrderIdString(o)))
            /\ RowMatchMethod(k) = "channel_order_id"

----------------------------------------------------------------------------
(* C6 *)

\* the key a settlement carries in JS column c as claimed: a missing value
\* is no key
C6_ClaimedKey(row, c) ==
    IF Col(row, c).t = "undef" THEN <<>> ELSE Trim(ToChars(Col(row, c)))

C6_ClaimedIndex(map, c) ==
    /\ DOMAIN map =
          {C6_ClaimedKey(shiprocketRows[i], c) : i \in DOMAIN shiprocketRows} \ {<<>>}
    /\ \A key \in DOMAIN map :
          \E i \in DOMAIN shiprocketRows :
              /\ C6_ClaimedKey(shiprocketRows[i], c) = key
              /\ map[key] = shiprocketRows[i]
              /\ \A j \in DOMAIN shiprocketRows :
                     C6_ClaimedKey(shiprocketRows[j], c) = key => j <= i

\* C6 (as claimed): each of the three indexes has as keys exactly the
\* non-empty trimmed values of its own field (no entry for an empty or
\* missing key) and maps each key to the last record that carried it.
C6_IndexExact ==
    pc # "start" =>
        /\ C6_ClaimedIndex(shiprocketMapByCefId, 0)
        /\ C6_ClaimedIndex(shiprocketMapByOrderId, 2)
        /\ C6_ClaimedIndex(shiprocketMapByUte, 1)

\* the same with every settlement key present: the part of C6 the code meets
C6_IndexExactOfPresentKeys ==
    (\A i \in DOMAIN shiprocketRows : \A c \in 0..2 : Col(shiprocketRows[i], c).t # "undef")
        => C6_IndexExact

----------------------------------------------------------------------------
(* C7 *)

\* the order number of o, trimmed as line 304 reads it
C7_SecondaryKey(o) == Trim(Col(o, 1).s)

\* that order number with one leading "#" removed, trimmed
C7_ChannelKey(o) ==
    LET s == C7_SecondaryKey(o)
    IN  Trim(IF s # <<>> /\ s[1] = "#" THEN SubSeq(s, 2, Len(s)) ELSE s)

\* C7: the channel-id lookup uses the (trimmed) order number with exactly one
\* leading "#" removed and trimmed, the secondary-id lookup the trimmed order
\* number with the "#" kept; both are exact, case-sensitive equality: order
\* number "#32" matches channel order id "32", and a settlement is matched only
\* when its trimmed key equals the lookup key.
C7_ExactNormalizedKeys ==
    \A k \in Rows :
        LET o  == OrderOf(k)
            ck == C7_ChannelKey(o)
            sk == C7_SecondaryKey(o)
        IN  Col(o, 1).t = "str" =>
                /\ RowMatchMethod(k) = "channel_order_id" <=>
                       (ck # <<>> /\ ck \in DOMAIN shiprocketMapByCefId)
                /\ RowMatchMethod(k) = "channel_order_id" =>
                       /\ Carries(k, shiprocketMapByCefId[ck])
                       /\ \E i \in DOMAIN shiprocketRows :
                              Trim(ToChars(Col(shiprocketRows[i], 0))) = ck
                /\ RowMatchMethod(k) = "ute" =>
                       /\ sk \in DOMAIN shiprocketMapByUte
                       /\ Carries(k, shiprocketMapByUte[sk])
                       /\ \E i \in DOMAIN shiprocketRows :
                              Trim(ToChars(Col(shiprocketRows[i], 1))) = sk
                /\ (RowMatchMethod(k) = "none" /\ sk # <<>>) =>
                       sk \notin DOMAIN shiprocketMapByUte
                /\ (Col(o, 1) = Str(cHash32) /\
                    \E i \in DOMAIN shiprocketRows : Col(shiprocketRows[i], 0) = Str(c32))
                       => RowMatchMethod(k) = "channel_order_id"

\* order number "#32" matched by the settlement with channel order id "32"
\* while a settlement with channel order id "#32" is there too, and an order
\* number starting with two "#" matched by the channel order id that keeps one
C7_Witness ==
    /\ \E k \in Rows :
          /\ Col(OrderOf(k), 1) = Str(cHash32)
          /\ RowMatchMethod(k) = "channel_order_id"
          /\ \E i \in DOMAIN shiprocketRows :
                 /\ Col(shiprocketRows[i], 0) = Str(c32)
                 /\ Carries(k, shiprocketRows[i])
          /\ \E i \in DOMAIN shiprocketRows :
                 /\ Col(shiprocketRows[i], 0) = Str(cHash32)
                 /\ ~Carries(k, shiprocketRows[i])
    /\ \E k \in Rows :
          /\ C7_ChannelKey(OrderOf(k)) = cHash32
          /\ RowMatchMethod(k) = "channel_order_id"

----------------------------------------------------------------------------
(* C8 *)

\* C8: the difference of a row is the order total minus the matched
\* settlement's net amount; without a match the net amount and every numeric
\* settlement field are 0, every string settlement field is empty and the
\* difference is the order total.
C8_DifferenceAndDefaults ==
    \A k \in Rows :
        LET total == ParseFloatOr0(Col(OrderOf(k), 5))
        IN  /\ RowTotal(k) = total
            /\ RowDifference(k) = total - RowNet(k)
            /\ RowMatchMethod(k) = "none" =>
                   /\ RowNet(k) = 0
                   /\ RowDifference(k) = total
                   /\ \A c \in 10..14 : Col(reconciliation[k], c) = Num(0)
                   /\ \A c \in {9, 15, 16} : Col(reconciliation[k], c) = Str(<<>>)
            /\ RowMatchMethod(k) # "none" =>
                   \E i \in DOMAIN shiprocketRows :
                       /\ Carries(k, shiprocketRows[i])
                       /\ RowDifference(k) = total - ParseFloatOr0(Col(shiprocketRows[i], 9))

\* a run with a matched row 0.50 apart and an unmatched row whose difference
\* is its order total
C8_Witness ==
    /\ \E k \in Rows :
          /\ RowMatchMethod(k) # "none"
          /\ RowNet(k) = 1000
          /\ RowDifference(k) = 50
    /\ \E k \in Rows :
          /\ RowMatchMethod(k) = "none"
          /\ RowDifference(k) = 1000

----------------------------------------------------------------------------
(* C9 and C10 *)

\* processing order o raises a TypeError: its payment type is a truthy value
\* that is no string, or its payment method is one and the payment type is
\* not COD
C10_Raises(o) ==
    \/ Truthy(Col(o, 8)) /\ Col(o, 8).t # "str"
    \/ /\ ~Truthy(Col(o, 8)) \/ ToUpperCase(Col(o, 8).s) # cCOD
       /\ Truthy(Col(o, 4)) /\ Col(o, 4).t # "str"

\* what the row of order o shows of the order: id, number, total, payment type
C9_OrderPart(o) ==
    << Str(Trim(ToChars(Col(o, 0)))), Str(Trim(ToChars(Col(o, 1)))),
       Num(ParseFloatOr0(Col(o, 5))), OrElse(Col(o, 8), Str(cUnknown)) >>

C9_RowPart(r) == << Col(r, 0), Col(r, 1), Col(r, 3), Col(r, 6) >>

\* the orders gone through so far whose processing did not raise
C9_Kept ==
    SelectSeq(SubSeq(shopifyRows, 1, Cardinality(Processed)),
              LAMBDA o : ~C10_Raises(o))

\* C9: the rows follow the input orders: one row per processed order, in
\* input order, two orders with the same order id both getting their row.
C9_RowsFollowInputOrder ==
    /\ Len(reconciliation) = Len(C9_Kept)
    /\ \A k \in Rows : C9_RowPart(reconciliation[k]) = C9_OrderPart(C9_Kept[k])

\* a finished run of two orders with the same order id and different totals,
\* both with their row, in input order
C9_Witness ==
    /\ pc = "done"
    /\ Len(shopifyRows) = 2
    /\ Len(reconciliation) = 2
    /\ Col(shopifyRows[1], 0) = Col(shopifyRows[2], 0)
    /\ RowTotal(1) = 1050
    /\ RowTotal(2) = 1049

\* the order total of o is not numeric
C10_TotalNotNumeric(o) == ParseFloat(Col(o, 5)).t = "nan"

RowsMatchedBy(m) == Cardinality({k \in Rows : RowMatchMethod(k) = m})

\* the number of produced rows of COD orders
RowsCod == Cardinality({k \in Rows : IsCod(OrderOf(k))})

\* C11 (as claimed): after mergeDatasets every counter, the total-orders
\* counter included, counts only the orders that got a row; an order that
\* was skipped because processing it threw is in no counter.
C11_CountersCountProducedRows ==
    pc = "done" =>
        /\ stats.totalOrders = Len(reconciliation)
        /\ stats.cod = RowsCod
        /\ stats.prepaid = Len(reconciliation) - RowsCod
        /\ stats.reconciled + stats.mismatches + stats.pendingRemittance
               + stats.prepaidNoRemittance = Len(reconciliation)

\* C12 (as claimed): after mergeDatasets the counter of each match method
\* is the number of produced rows with that matchMethod; the counter
\* reported as "Not Matched" (matchedByNone) is the number of rows whose
\* matchMethod is none, and rows matched by the secondary id are in no
\* other method's counter.
C12_CountersPerMatchMethod ==
    pc = "done" =>
        /\ stats.matchedByName = RowsMatchedBy("channel_order_id")
        /\ stats.matchedById = RowsMatchedBy("shiprocket_order_id")
        /\ stats.matchedByNone = RowsMatchedBy("none")

----------------------------------------------------------------------------
(* The two providers and the row mapping of the fetchers *)

MaxApiOrders == 1

MaxApiSettlements == 1

\* an order of the Shopify API, the fields getAllShopifyOrders reads and
\* the order's name (number), which it does not read
ApiOrder(id, name, gateway, total_price) ==
    [id |-> id, name |-> name, created_at |-> Str(<<"d", "1">>),
     first_name |-> Str(<<"A">>), last_name |-> Undef, gateway |-> gateway,
     total_price |-> total_price, financial_status |-> Str(<<"p", "a", "i", "d">>),
     fulfillment_status |-> Undef]

\* a settled order of the Shiprocket API, with the batch it came in
ApiSettlement(channel_order_id, order_id, awb, net_settlement, batch_id) ==
    [channel_order_id |-> channel_order_id, ute |-> Undef, order_id |-> order_id,
     awb |-> awb, order_amount |-> Str(<<"1", "0">>),
     shipping_charges |-> Num(4000), cod_charges |-> Num(2000),
     adjustments |-> Undef, rto_reversal |-> Undef,
     net_settlement |-> net_settlement, batch |-> [id |-> batch_id, date |-> Str(<<"d", "9">>)]]

\* "#32" placed cash on delivery for 10.00, and a prepaid order of 0.00
ApiOrders ==
    { ApiOrder(Num(700), Str(cHash32), Str(ccod), Str(<<"1", "0", ".", "0", "0">>)),
      ApiOrder(Num(800), Str(<<"#", "3", "3">>), Str(crazorpay), Str(<<"0", ".", "0", "0">>)) }

\* the settlement of order "32": 9.80 remitted in batch 5
ApiSettlements ==
    { ApiSettlement(Str(c32), Str(<<"9", "1">>), Str(<<"A", "1">>), Num(980), Num(500)) }

\* shopify.js lines 144: `${first_name || ""} ${last_name || ""}`.trim()
CustomerName(order) ==
    Str(Trim(OrElse(order.first_name, Str(<<>>)).s \o <<" ">>
             \o OrElse(order.last_name, Str(<<>>)).s))

\* shopify.js lines 141-152: the row of one order
ShopifyRow(order) ==
    << order.id,
       order.created_at,
       CustomerName(order),
       OrElse(order.gateway, Str(<<>>)),
       ParseFloat(order.total_price),
       OrElse(order.financial_status, Str(<<>>)),
       OrElse(order.fulfillment_status, Str(<<>>)),
       IF Truthy(order.gateway) /\ Includes(ToLowerCase(order.gateway.s), ccod)
       THEN Str(cCOD) ELSE Str(cPrepaid) >>

\* shiprocket.js lines 161-172: the row of one settled order
ShiprocketRow(order) ==
    << order.order_id,
       OrElse(order.awb, Str(<<>>)),
       Num(ParseFloatOr0(order.order_amount)),
       Num(ParseFloatOr0(order.shipping_charges)),
       Num(ParseFloatOr0(order.cod_charges)),
       Num(ParseFloatOr0(order.adjustments)),
       Num(ParseFloatOr0(order.rto_reversal)),
       Num(ParseFloatOr0(order.net_settlement)),
       OrElse(order.batch.date, Str(<<>>)),
       order.batch.id >>

\* safeParseString: value ? String(value).trim() : defaultValue
safeParseString(value, defaultValue) ==
    IF Truthy(value) THEN Str(Trim(ToChars(value))) ELSE defaultValue

\* safeParseFloat: the default for null, undefined, "" and NaN
safeParseFloat(value, defaultValue) ==
    IF value.t = "undef" \/ (value.t = "str" /\ value.s = <<>>) THEN defaultValue
    ELSE IF ParseFloat(value).t = "nan" THEN defaultValue ELSE ParseFloat(value)

\* the richer getRemittanceData, lines 1293-1345: the row of one settled
\* order (aliases of a field that the provider does not send are undefined)
RemittanceRow(order) ==
    LET shippingCharges == safeParseFloat(OrElse(order.shipping_charges, Num(0)), Num(0))
    IN  << safeParseString(order.channel_order_id, OrElse(order.order_id, Str(<<>>))),
           safeParseString(OrElse(order.ute, Str(<<>>)), Str(<<>>)),
           safeParseString(OrElse(order.order_id, Str(<<>>)), Str(<<>>)),
           safeParseString(OrElse(order.awb, Str(<<>>)), Str(<<>>)),
           safeParseFloat(OrElse(order.order_amount, Num(0)), Num(0)),
           shippingCharges,
           safeParseFloat(OrElse(order.cod_charges, Num(0)), Num(0)),
           safeParseFloat(OrElse(order.adjustments, Num(0)), Num(0)),
           safeParseFloat(OrElse(order.rto_reversal, Num(0)), Num(0)),
           safeParseFloat(OrElse(order.net_settlement, Num(0)), Num(0)),
           safeParseString(OrElse(order.batch.date, Str(<<"d", "0">>)), Str(<<"d", "0">>)),
           safeParseString(OrElse(order.batch.id, Str(<<>>)), Str(<<>>)),
           safeParseFloat(OrElse(order.shipping_charges, Num(0)), shippingCharges) >>

\* orders.push(row) for every order, in the provider's order
OrderRows(items) == [k \in DOMAIN items |-> ShopifyRow(items[k])]

\* settlements.push(row) for every settled order, by either variant
SettlementRows(variant, items) ==
    [k \in DOMAIN items |->
        IF variant = "richer" THEN RemittanceRow(items[k]) ELSE ShiprocketRow(items[k])]

----------------------------------------------------------------------------
(* One reconciliation request *)

\* the entry points: handleReconcile (server/routes/reconcile.ts) and the
\* serverless function (src/healthChecks.js) call runReconciliation;
\* handleComplete (server/routes/complete.ts) and its variant with the fee
\* breakdown run the steps themselves
Handlers == {"handleReconcile", "reconcileFunction", "handleComplete",
             "handleCompleteCuts"}

\* the two getRemittanceData of the repository
Remittances == {"shiprocket.js", "richer"}

\* messages of the errors the HTTP clients raise
ApiErrors == {"Request failed with status code 503", "timeout of 15000ms exceeded"}

MaxCuts == 1

UsesRunner(h) == h \in {"handleReconcile", "reconcileFunction"}

\* String.prototype.includes on a message
IncludesText(s, sub) ==
    \E k \in 1..(Len(s) - Len(sub) + 1) : SubSeq(s, k, k + Len(sub) - 1) = sub

\* shopify.js line 181
ShopifyError(m) == "Failed to fetch Shopify orders: " \o m

\* shiprocketGet and the catch of getRemittanceData; the richer variant
\* falls back to a second endpoint first (lines 1365-1482)
RemittanceError(variant, m) ==
    IF variant = "richer"
    THEN "Failed to fetch Shiprocket settlements: All approaches failed: "
             \o "Shiprocket network error: " \o m
    ELSE "Failed to fetch Shiprocket settlements: Shiprocket network error: " \o m

\* the richer getRemittanceData, lines 1362-1364 and 1473-1482: no rows
\* from the batches and none from the fallback endpoint
NoSettlementsError ==
    "Failed to fetch Shiprocket settlements: All approaches failed: "
        \o "No orders found in fallback endpoint"

CutsError(m) == "Failed to calculate per-order cuts: " \o m

\* sheets.js lines 75 and 110
ClearError(m) == "Failed to clear sheet data: " \o m

WriteError(m) == "Failed to write to sheet: " \o m

\* the message of the deadline
TimeoutMessage(h) ==
    CASE h = "handleReconcile" -> "Reconciliation timeout: operation took too long"
      [] h = "reconcileFunction" -> "Reconciliation timeout: function took too long"
      [] OTHER -> "Reconciliation completion timeout: operation took too long"

\* bug: the steps of runReconciliation with the tables written right after
\* the orders fetch
After_WriteFirst(h, p) ==
    CASE p = "fetchOrders" -> IF UsesRunner(h) THEN "write" ELSE "fetchSettlements"
      [] p = "fetchSettlements" -> IF UsesRunner(h) THEN "cuts" ELSE "start"
      [] p = "cuts" -> IF UsesRunner(h) THEN "start" ELSE "write"
      [] OTHER -> IF h = "handleCompleteCuts" THEN "cuts" ELSE "write"

\* the step that follows step p: reconcileRunner.js lines 21-45 (orders,
\* settlements, cuts, merge, writes), complete.ts lines 24-43 (orders,
\* settlements, merge, writes), its variant (cuts after the merge)
After(h, p) ==
    CASE p = "fetchOrders" -> "fetchSettlements"
      [] p = "fetchSettlements" -> IF UsesRunner(h) THEN "cuts" ELSE "start"
      [] p = "cuts" -> IF UsesRunner(h) THEN "start" ELSE "write"
      [] OTHER -> IF h = "handleCompleteCuts" THEN "cuts" ELSE "write"

\* the writes run one after the other, in this order
WriteOrder(h) ==
    IF UsesRunner(h)
    THEN <<"Shopify_Orders", "Shiprocket_Settlements", "Shiprocket_Cuts", "Reconciliation">>
    ELSE <<"Shopify_Orders", "Shiprocket_Settlements", "Reconciliation">>

\* Promise.all of the writes
Parallel(h) == h = "handleCompleteCuts"

\* the tables a run writes
Needed(h, cuts) ==
    IF Parallel(h)
    THEN {"Shopify_Orders", "Shiprocket_Settlements", "Reconciliation"}
             \cup (IF cuts > 0 THEN {"Shiprocket_Cuts"} ELSE {})
    ELSE {WriteOrder(h)[k] : k \in DOMAIN WriteOrder(h)}

\* values.length of the rows written to a table
TableRows(t) ==
    CASE t = "Shopify_Orders" -> Len(shopifyRows)
      [] t = "Shiprocket_Settlements" -> Len(shiprocketRows)
      [] t = "Shiprocket_Cuts" -> shiprocketCuts
      [] OTHER -> Len(reconciliation)

\* the clearAndWriteSheet calls in flight when the writes begin
BeginTables(h, cuts) ==
    [t \in Tables |->
        IF Parallel(h) THEN (IF t \in Needed(h, cuts) THEN "clearing" ELSE "old")
        ELSE IF t = WriteOrder(h)[1] THEN "clearing" ELSE "old"]

\* table t takes state st; a sequential run calls clearAndWriteSheet for
\* the next table once t is written
Settle(tb, h, t, st) ==
    LET tb1 == [tb EXCEPT ![t] = st]
        o   == WriteOrder(h)
    IN  IF st = "written" /\ ~Parallel(h)
           /\ \E k \in 1..(Len(o) - 1) : o[k] = t
        THEN [tb1 EXCEPT ![o[(CHOOSE k \in 1..(Len(o) - 1) : o[k] = t) + 1]] = "clearing"]
        ELSE tb1

\* bug: a failed write undoes the tables written before it
FailTable_Rollback(tb, t, st) ==
    [x \in Tables |-> IF x = t THEN st ELSE IF tb[x] = "written" THEN "old" ELSE tb[x]]

\* sheets.js lines 128-134, reconcileRunner.js lines 69-86: a failed
\* clearAndWriteSheet leaves every other table as it is
FailTable(tb, t, st) == [tb EXCEPT ![t] = st]

\* every awaited clearAndWriteSheet has resolved
WritesDone(h, cuts, tb) == \A t \in Needed(h, cuts) : tb[t] = "written"

\* bug: the catch raises a new error of its own
Rethrow_Wrapped(msg) == "Reconciliation failed: " \o msg

\* reconcileRunner.js line 85: throw error
Rethrow(msg) == msg

\* reconcile.ts line 37 and complete.ts: 500; healthChecks.js lines
\* 213-217: 408 when the message includes "timeout"
ErrorStatus(h, msg) ==
    IF h = "reconcileFunction" /\ IncludesText(msg, "timeout") THEN 408 ELSE 500

\* bug: a response is sent whether or not one was sent before
Send_Unguarded(resp, status, message) == [status |-> status, message |-> message]

\* res.status(...).json(...) guarded by headersSent; the function's
\* Promise.race keeps its first outcome. The unguarded
\* res.status(200).json(summary) of the handlers throws
\* ERR_HTTP_HEADERS_SENT when the timeout answer went out before it, and
\* the guarded catch then sends nothing
Send(resp, status, message) ==
    IF resp.status # 0 THEN resp ELSE [status |-> status, message |-> message]

\* clearTimeout(timeoutHandle); the function never clears its timer
ClearTimer(h, tm) == IF h # "reconcileFunction" /\ tm = "armed" THEN "cleared" ELSE tm

\* the deadline has expired and its answer has been returned
TimedOut == timer = "fired" /\ response.status = 408

\* an error of a collaborator reaches the catch of the run and of the handler
Failed(msg) ==
    /\ pc' = "failed"
    /\ thrown' = msg
    /\ raised' = IF UsesRunner(handler) THEN Rethrow(msg) ELSE msg
    /\ timer' = ClearTimer(handler, timer)
    /\ response' = Send(response,
                        ErrorStatus(handler, IF UsesRunner(handler) THEN Rethrow(msg) ELSE msg),
                        IF UsesRunner(handler) THEN Rethrow(msg) ELSE msg)

mergeVars == <<shiprocketMapByCefId, shiprocketMapByOrderId, shiprocketMapByUte,
               reconciliation, stats, next, rowSrc>>

\* what a request never changes: its inputs and the other components
inputVars == <<handler, remittance, apiOrders, apiSettlements, otherVars>>

\* a request arrives: the timer is armed and getAllShopifyOrders is called
InitRun ==
    /\ handler \in Handlers
    /\ remittance \in Remittances
    /\ apiOrders \in SeqsUpTo(ApiOrders, MaxApiOrders)
    /\ apiSettlements \in SeqsUpTo(ApiSettlements, MaxApiSettlements)
    /\ shopifyRows = <<>>
    /\ shiprocketRows = <<>>
    /\ shiprocketMapByCefId = EmptyMap
    /\ shiprocketMapByOrderId = EmptyMap
    /\ shiprocketMapByUte = EmptyMap
    /\ reconciliation = <<>>
    /\ stats = InitialStats(0)
    /\ pc = "fetchOrders"
    /\ next = 1
    /\ rowSrc = <<>>
    /\ timer = "armed"
    /\ response = NoResponse
    /\ thrown = ""
    /\ raised = ""
    /\ tables = NoTables
    /\ shiprocketCuts = 0
    /\ steps = <<>>
    /\ late = FALSE
    /\ NoSheet
    /\ NoView
    /\ NoGet

\* getAllShopifyOrders resolves; getRemittanceData is called
FetchOrders ==
    /\ pc = "fetchOrders"
    /\ shopifyRows' = OrderRows(apiOrders)
    /\ pc' = After(handler, "fetchOrders")
    /\ steps' = Append(steps, "orders")
    /\ late' = (late \/ TimedOut)
    /\ tables' = IF After(handler, "fetchOrders") = "write"
                 THEN BeginTables(handler, shiprocketCuts) ELSE tables
    /\ UNCHANGED <<shiprocketRows, mergeVars, inputVars, timer, response,
                   thrown, raised, shiprocketCuts>>

\* getAllShopifyOrders rejects
FetchOrdersFail ==
    /\ pc = "fetchOrders"
    /\ \E m \in ApiErrors : Failed(ShopifyError(m))
    /\ UNCHANGED <<shopifyRows, shiprocketRows, mergeVars, inputVars, tables,
                   shiprocketCuts, steps, late>>

\* getRemittanceData resolves with the rows of the settled orders
FetchSettlements ==
    /\ pc = "fetchSettlements"
    /\ ~(remittance = "richer" /\ apiSettlements = <<>>)
    /\ shiprocketRows' = SettlementRows(remittance, apiSettlements)
    /\ pc' = After(handler, "fetchSettlements")
    /\ steps' = Append(steps, "settlements")
    /\ UNCHANGED <<shopifyRows, mergeVars, inputVars, timer, response,
                   thrown, raised, tables, shiprocketCuts, late>>

\* getRemittanceData rejects: the provider cannot be reached, or the richer
\* variant found no settled order
FetchSettlementsFail ==
    /\ pc = "fetchSettlements"
    /\ \E msg \in {RemittanceError(remittance, m) : m \in ApiErrors}
                  \cup (IF remittance = "richer" /\ apiSettlements = <<>>
                        THEN {NoSettlementsError} ELSE {}) :
           Failed(msg)
    /\ UNCHANGED <<shopifyRows, shiprocketRows, mergeVars, inputVars, tables,
                   shiprocketCuts, steps, late>>

\* calculatePerOrderCuts resolves
CalculateCuts ==
    /\ pc = "cuts"
    /\ \E n \in 0..MaxCuts :
           /\ shiprocketCuts' = n
           /\ tables' = IF After(handler, "cuts") = "write"
                        THEN BeginTables(handler, n) ELSE tables
    /\ pc' = After(handler, "cuts")
    /\ steps' = Append(steps, "cuts")
    /\ UNCHANGED <<shopifyRows, shiprocketRows, mergeVars, inputVars, timer,
                   response, thrown, raised, late>>

\* calculatePerOrderCuts rejects: runReconciliation has no catch of its own
\* around it (reconcileRunner.js line 31), the handleComplete variant has
CalculateCutsFail ==
    /\ pc = "cuts"
    /\ steps' = Append(steps, "cutsFailed")
    /\ IF UsesRunner(handler)
       THEN /\ \E m \in ApiErrors : Failed(CutsError(m))
            /\ UNCHANGED tables
       ELSE /\ pc' = After(handler, "cuts")
            /\ tables' = BeginTables(handler, shiprocketCuts)
            /\ UNCHANGED <<timer, response, thrown, raised>>
    /\ UNCHANGED <<shopifyRows, shiprocketRows, mergeVars, inputVars,
                   shiprocketCuts, late>>

\* mergeDatasets has returned to the run
AfterMerge ==
    /\ pc = "done"
    /\ handler # "none"
    /\ pc' = After(handler, "done")
    /\ steps' = Append(steps, "merge")
    /\ tables' = IF After(handler, "done") = "write"
                 THEN BeginTables(handler, shiprocketCuts) ELSE tables
    /\ UNCHANGED <<shopifyRows, shiprocketRows, mergeVars, inputVars, timer,
                   response, thrown, raised, shiprocketCuts, late>>

\* sheets.js lines 126-127, 62-72: the tab is cleared; writeToSheet returns
\* at once when there are no values (lines 87-90)
ClearTable(t) ==
    /\ tables[t] = "clearing"
    /\ tables' = Settle(tables, handler, t,
                        IF TableRows(t) = 0 THEN "written" ELSE "writing")
    /\ late' = (late \/ TimedOut)
    /\ UNCHANGED <<shopifyRows, shiprocketRows, mergeVars, inputVars, pc, timer,
                   response, thrown, raised, shiprocketCuts, steps>>

\* the outcome of a rejected clearAndWriteSheet: the first rejection ends
\* the run, a later one of a parallel write goes nowhere
Rejected(msg) ==
    IF pc = "failed" THEN UNCHANGED <<pc, timer, response, thrown, raised>>
    ELSE Failed(msg)

\* sheets.js lines 73-76: clearing fails, the tab keeps its old rows
ClearTableFail(t) ==
    /\ tables[t] = "clearing"
    /\ tables' = FailTable(tables, t, "clearFailed")
    /\ \E m \in ApiErrors : Rejected(ClearError(m))
    /\ UNCHANGED <<shopifyRows, shiprocketRows, mergeVars, inputVars,
                   shiprocketCuts, steps, late>>

\* sheets.js lines 92-107: the rows are written
WriteTable(t) ==
    /\ tables[t] = "writing"
    /\ tables' = Settle(tables, handler, t, "written")
    /\ late' = (late \/ TimedOut)
    /\ UNCHANGED <<shopifyRows, shiprocketRows, mergeVars, inputVars, pc, timer,
                   response, thrown, raised, shiprocketCuts, steps>>

\* sheets.js lines 108-111: writing fails, the tab stays cleared
WriteTableFail(t) ==
    /\ tables[t] = "writing"
    /\ tables' = FailTable(tables, t, "writeFailed")
    /\ \E m \in ApiErrors : Rejected(WriteError(m))
    /\ UNCHANGED <<shopifyRows, shiprocketRows, mergeVars, inputVars,
                   shiprocketCuts, steps, late>>

\* every write resolved: the summary is built and answered with 200
Finish ==
    /\ pc = "write"
    /\ WritesDone(handler, shiprocketCuts, tables)
    /\ pc' = "finished"
    /\ timer' = ClearTimer(handler, timer)
    /\ response' = Send(response, 200, "success")
    /\ UNCHANGED <<shopifyRows, shiprocketRows, mergeVars, inputVars, thrown,
                   raised, tables, shiprocketCuts, steps, late>>

\* the deadline expires while the run awaits a fetch or a write
Timeout ==
    /\ timer = "armed"
    /\ pc \in {"fetchOrders", "fetchSettlements", "cuts", "write"}
    /\ response.status = 0
    /\ timer' = "fired"
    /\ response' = Send(response,
                        IF handler = "reconcileFunction"
                        THEN ErrorStatus(handler, TimeoutMessage(handler)) ELSE 408,
                        TimeoutMessage(handler))
    /\ UNCHANGED <<shopifyRows, shiprocketRows, mergeVars, inputVars, pc,
                   thrown, raised, tables, shiprocketCuts, steps, late>>

NextRun ==
    \/ FetchOrders \/ FetchOrdersFail
    \/ FetchSettlements \/ FetchSettlementsFail
    \/ CalculateCuts \/ CalculateCutsFail
    \/ BuildIndexes \/ MergeRow \/ MergeRowCatch \/ Return \/ AfterMerge
    \/ \E t \in Tables : ClearTable(t)
    \/ \E t \in Tables : ClearTableFail(t)
    \/ \E t \in Tables : WriteTable(t)
    \/ \E t \in Tables : WriteTableFail(t)
    \/ Finish
    \/ Timeout

SpecRun == InitRun /\ [][NextRun]_vars

\* the shape of the request state
RunTypeOK ==
    /\ handler \in Handlers \cup {"none"}
    /\ timer \in {"none", "armed", "fired", "cleared"}
    /\ response.status \in {0, 200, 408, 500}
    /\ \A t \in Tables :
           tables[t] \in {"old", "clearing", "writing", "written",
                          "clearFailed", "writeFailed"}
    /\ shiprocketCuts \in 0..MaxCuts

----------------------------------------------------------------------------
(* Claims about the run *)

\* table t has been cleared or written by this run
Touched(t) == tables[t] \in {"writing", "written", "writeFailed"}

\* the fetches and the merge that have completed, in their order
FetchAndMergeSteps ==
    SelectSeq(steps, LAMBDA x : x \in {"orders", "settlements", "merge"})

\* the run failed in one of the two fetches
FetchFailed == pc = "failed" /\ \A k \in DOMAIN steps : steps[k] # "settlements"

\* C13: no table is cleared or written (no clearAndWriteSheet is even
\* called) before the orders fetch, the settlements fetch and the merge
\* have completed, in that order; when
\* either fetch fails the run ends in failure (an error raised, an error
\* answer) and every table is untouched.
C13_NoWriteBeforeFetchAndMerge ==
    /\ (\E t \in Tables : tables[t] # "old")
           => FetchAndMergeSteps = <<"orders", "settlements", "merge">>
    /\ FetchFailed =>
           /\ raised # ""
           /\ response.status \in {408, 500}
           /\ \A t \in Tables : tables[t] = "old"

\* handleComplete has written the reconciliation table, after both fetches
\* and the merge
C13_Witness ==
    /\ handler = "handleComplete"
    /\ Touched("Reconciliation")
    /\ tables["Shopify_Orders"] = "written"
    /\ steps = <<"orders", "settlements", "merge">>

\* the clearAndWriteSheet of table t was rejected
WriteFailed(t) == tables[t] \in {"clearFailed", "writeFailed"}

\* C14: when a table write of a run fails, the run is a failure (an error
\* is raised and answered, never the success summary), and a table that
\* has been written keeps its new rows from then on: nothing is rolled back.
C14_WriteFailureNoRollback ==
    /\ [](\A t \in Tables :
              WriteFailed(t) =>
                  /\ pc = "failed"
                  /\ raised # ""
                  /\ response.status \in {408, 500})
    /\ [][\A t \in Tables : tables[t] = "written" => tables'[t] = "written"]_vars

\* runReconciliation failed writing the reconciliation table after the
\* three tables before it were written
C14_Witness ==
    /\ handler = "handleReconcile"
    /\ tables["Reconciliation"] = "writeFailed"
    /\ tables["Shopify_Orders"] = "written"
    /\ tables["Shiprocket_Settlements"] = "written"
    /\ tables["Shiprocket_Cuts"] = "written"
    /\ response.status = 500

\* calculatePerOrderCuts was rejected in this run
CutsFailed == \E k \in DOMAIN steps : steps[k] = "cutsFailed"

\* C15 (as claimed): a failure of calculatePerOrderCuts never fails the
\* run: the error of the fee breakdown is not the error of the run, and
\* the run goes on to write the three tables and to answer with the
\* success summary, without a fee-breakdown table.
C15_CutsFailureNonFatal ==
    CutsFailed =>
        /\ thrown \notin {CutsError(m) : m \in ApiErrors}
        /\ pc # "failed" => pc \in {"start", "merge", "done", "write", "finished"}
        /\ pc = "finished" =>
               /\ \A t \in {"Shopify_Orders", "Shiprocket_Settlements", "Reconciliation"} :
                      tables[t] = "written"
               /\ shiprocketCuts = 0

\* step name x has completed in this run
StepDone(x) == \E k \in DOMAIN steps : steps[k] = x

\* C16 (as claimed): when the settlement provider has no settled order at
\* all, the run does not fail for it: getRemittanceData yields an empty
\* list, the merge builds three empty indexes and every COD order that
\* gets a row is reported Pending Remittance.
C16_EmptySettlementsNotAnError ==
    apiSettlements = <<>> =>
        /\ thrown # NoSettlementsError
        /\ StepDone("settlements") => shiprocketRows = <<>>
        /\ pc \in {"merge", "done"} =>
               /\ shiprocketMapByCefId = EmptyMap
               /\ shiprocketMapByOrderId = EmptyMap
               /\ shiprocketMapByUte = EmptyMap
        /\ \A k \in Rows : IsCod(OrderOf(k)) => RowStatus(k) = "Pending Remittance"

\* C17 (as claimed): when a fetch or a table write fails, the error the
\* run raises and the message of the HTTP error response are both the
\* message of the failing collaborator, unchanged.
C17_MessageUnchanged ==
    pc = "failed" =>
        /\ raised = thrown
        /\ response.message = thrown

\* C17 (amended): the error the run raises carries the message of the
\* failing collaborator unchanged, and so does the error response of the
\* handler unless the deadline expired first: then the response already
\* sent is the timeout answer, with the message of the deadline.
C17_MessageUnchangedUnlessTimedOut ==
    pc = "failed" =>
        /\ raised = thrown
        /\ response.message = IF timer = "fired" THEN TimeoutMessage(handler) ELSE thrown
        /\ response.status # 200

\* handleReconcile answered 500 with the message of getAllShopifyOrders
C17_Witness ==
    /\ handler = "handleReconcile"
    /\ pc = "failed"
    /\ thrown = ShopifyError("Request failed with status code 503")
    /\ raised = thrown
    /\ response = [status |-> 500, message |-> thrown]

\* the order of the provider is placed cash on delivery
ApiCod(order) ==
    Truthy(order.gateway) /\ Includes(ToLowerCase(order.gateway.s), ccod)

\* the settlement of the provider is that of the order: its channel order
\* id is the order's number without the "#"
ApiMatch(order, settlement) ==
    /\ settlement.channel_order_id.t = "str"
    /\ settlement.channel_order_id.s = StripHash(order.name.s)

\* C18 (as claimed): every row the fetchers hand to mergeDatasets has each
\* field at the position mergeDatasets reads it from (order: id 0, order
\* number 1, payment method 4, total 5, payment type 8; settlement: channel
\* order id 0, settlement order id 2, tracking id 3, net amount 9, batch id
\* 11), so that a fetched COD order whose number matches a fetched
\* settlement gets a row with its own total and that settlement's net.
C18_FetchedRowsFitMerge ==
    /\ StepDone("orders") =>
           \A q \in DOMAIN apiOrders :
               /\ Col(shopifyRows[q], 0) = apiOrders[q].id
               /\ Col(shopifyRows[q], 1) = apiOrders[q].name
               /\ Col(shopifyRows[q], 4) = OrElse(apiOrders[q].gateway, Str(<<>>))
               /\ Col(shopifyRows[q], 5) = ParseFloat(apiOrders[q].total_price)
               /\ Col(shopifyRows[q], 8) = IF ApiCod(apiOrders[q]) THEN Str(cCOD) ELSE Str(cPrepaid)
    /\ StepDone("settlements") =>
           \A j \in DOMAIN apiSettlements :
               /\ Col(shiprocketRows[j], 0) = apiSettlements[j].channel_order_id
               /\ Col(shiprocketRows[j], 2) = apiSettlements[j].order_id
               /\ Col(shiprocketRows[j], 3) = apiSettlements[j].awb
               /\ Col(shiprocketRows[j], 9) = apiSettlements[j].net_settlement
               /\ ToChars(Col(shiprocketRows[j], 11)) = ToChars(apiSettlements[j].batch.id)
    /\ StepDone("merge") =>
           \A q \in DOMAIN apiOrders :
               (ApiCod(apiOrders[q])
                /\ \E j \in DOMAIN apiSettlements : ApiMatch(apiOrders[q], apiSettlements[j]))
                   => \E k \in Rows :
                          /\ rowSrc[k] = q
                          /\ RowTotal(k) = ParseFloatOr0(apiOrders[q].total_price)
                          /\ \E j \in DOMAIN apiSettlements :
                                 /\ ApiMatch(apiOrders[q], apiSettlements[j])
                                 /\ RowNet(k) = ParseFloatOr0(apiSettlements[j].net_settlement)

\* C19 (as claimed): a request is answered 408 exactly when its deadline
\* expired before the run finished: an expired deadline is answered 408,
\* and a run that fails before the deadline is answered 500 whatever the
\* text of its error message.
C19_TimeoutIffDeadline ==
    /\ response.status = 408 <=> timer = "fired"
    /\ (pc = "failed" /\ timer # "fired") => response.status = 500

\* C20 (as claimed): once the deadline has expired and the timeout answer
\* has been returned, the run is abandoned: from then on it starts no
\* fetch and clears or writes no table. (late records that a fetch was
\* started or a table cleared or written after the timeout answer.)
C20_AbandonedAfterTimeout == TimedOut => ~late

----------------------------------------------------------------------------
(* Claims about the counters, the match and the responses *)

\* the number of produced rows whose status is st
RowsWithStatus(st) == Cardinality({k \in Rows : RowStatus(k) = st})

\* C28: after mergeDatasets the COD count plus the prepaid count is the
\* number of rows produced; every row carries exactly one of the four
\* statuses and is counted once, under that status, so the four status
\* counters sum to the number of rows produced.
C28_CountersPartitionRows ==
    pc = "done" =>
        /\ stats.cod + stats.prepaid = Len(reconciliation)
        /\ stats.cod = RowsCod
        /\ \A k \in Rows :
               RowStatus(k) \in {"Reconciled", "Mismatch", "Pending Remittance",
                                 "Prepaid - No Remittance"}
        /\ stats.reconciled = RowsWithStatus("Reconciled")
        /\ stats.mismatches = RowsWithStatus("Mismatch")
        /\ stats.pendingRemittance = RowsWithStatus("Pending Remittance")
        /\ stats.prepaidNoRemittance = RowsWithStatus("Prepaid - No Remittance")
        /\ stats.reconciled + stats.mismatches + stats.pendingRemittance
               + stats.prepaidNoRemittance = Len(reconciliation)

\* a finished merge of two orders, one row a Mismatch and one row of
\* another status, each counted once
C28_Witness ==
    /\ pc = "done"
    /\ Len(reconciliation) = 2
    /\ stats.mismatches = 1
    /\ stats.cod + stats.prepaid = 2
    /\ stats.reconciled + stats.pendingRemittance + stats.prepaidNoRemittance = 1

\* settlement s has a value in column c whose trimmed text is key
CarriesKey(s, c, key) == C6_ClaimedKey(s, c) # <<>> /\ C6_ClaimedKey(s, c) = key

\* row k shows a settlement of the input that carries key in column c
AttachedCarries(k, c, key) ==
    \E i \in DOMAIN shiprocketRows :
        /\ Carries(k, shiprocketRows[i])
        /\ CarriesKey(shiprocketRows[i], c, key)

\* C29 (as claimed): the settlement attached to a row carries the key it
\* was matched by (channel order id = order number without the leading
\* "#", settlement order id = order id, secondary id = order number), and
\* matchMethod is none only when no settlement of the input carries any of
\* the order's three lookup keys in the corresponding field.
C29_AttachedCarriesMatchedKey ==
    \A k \in Rows :
        LET o == OrderOf(k)
        IN  /\ RowMatchMethod(k) = "channel_order_id"
                   => AttachedCarries(k, 0, OrderNameWithoutHash(o))
            /\ RowMatchMethod(k) = "shiprocket_order_id"
                   => AttachedCarries(k, 2, OrderIdString(o))
            /\ RowMatchMethod(k) = "ute"
                   => AttachedCarries(k, 1, OrderName(o))
            /\ RowMatchMethod(k) = "none" =>
                   \A i \in DOMAIN shiprocketRows :
                       /\ ~CarriesKey(shiprocketRows[i], 0, OrderNameWithoutHash(o))
                       /\ ~CarriesKey(shiprocketRows[i], 2, OrderIdString(o))
                       /\ ~CarriesKey(shiprocketRows[i], 1, OrderName(o))

\* C27: for every request and every interleaving of the deadline timer
\* with the end of the run, exactly one HTTP response is sent: an answer,
\* once sent, is never followed by another one, and an answer has been
\* sent as soon as the timer has fired or the run has ended.
C27_ExactlyOneResponse ==
    /\ []((timer = "fired" \/ pc \in {"finished", "failed"}) => response.status # 0)
    /\ [][response.status # 0 => response' = response]_vars

\* handleReconcile: the timer answered 408, the run then finished with
\* every table written, and the answer is still the 408
C27_Witness ==
    /\ handler = "handleReconcile"
    /\ pc = "finished"
    /\ timer = "fired"
    /\ response.status = 408
    /\ tables["Reconciliation"] = "written"


\* the fields of the body of an error response: reconcile.ts (408 and 500
\* with duration), the function of healthChecks.js (one body for both
\* statuses), complete.ts and its variant with cuts (the 408 of the timer
\* has no duration, the 500 of the catch has one)
ErrorBody(h, status) ==
    IF h \in {"handleComplete", "handleCompleteCuts"} /\ status = 408
    THEN {"status", "message", "timestamp"}
    ELSE {"status", "message", "timestamp", "duration"}

\* C24 (as claimed): every error response of a reconciliation trigger,
\* for a timeout as for any other failure, carries status 'error', a
\* message and the elapsed duration.
C24_ErrorCarriesDuration ==
    response.status \in {408, 500} =>
        {"status", "message", "duration"} \subseteq ErrorBody(handler, response.status)


\* reconciliationData.filter((row) => row[8] === st).length of the success
\* summary of handleComplete
SummaryCount(st) ==
    Cardinality({k \in Rows : Col(reconciliation[k], 8) = st})

reconciliationStats ==
    [reconciled          |-> SummaryCount("Reconciled"),
     mismatch            |-> SummaryCount("Mismatch"),
     pendingRemittance   |-> SummaryCount("Pending Remittance"),
     prepaidNoRemittance |-> SummaryCount("Prepaid - No Remittance")]

\* C23 (as claimed): in the success summary of handleComplete each counter
\* of reconciliationStats equals the number of merged rows having that
\* status, so the four counters sum to reconciledRows.
C23_SummaryCountsStatuses ==
    (handler = "handleCompleteCuts" /\ pc = "finished" /\ response.status = 200) =>
        /\ reconciliationStats.reconciled = RowsWithStatus("Reconciled")
        /\ reconciliationStats.mismatch = RowsWithStatus("Mismatch")
        /\ reconciliationStats.pendingRemittance = RowsWithStatus("Pending Remittance")
        /\ reconciliationStats.prepaidNoRemittance =
               RowsWithStatus("Prepaid - No Remittance")
        /\ reconciliationStats.reconciled + reconciliationStats.mismatch
               + reconciliationStats.pendingRemittance
               + reconciliationStats.prepaidNoRemittance = Len(reconciliation)

----------------------------------------------------------------------------
(* One tab of the spreadsheet under clearAndWriteSheet (src/src/sheets.js) *)

\* the longest list of rows written by a call
MaxRows == 2

\* the rows a run may write; a row is told from another by its text
RowTexts == {"a", "b"}

\* what starts a reconciliation run: the POST of the page, the GET of its
\* 30-second auto-refresh, the 6-hour schedule
Triggers == {"manual", "auto-refresh", "scheduled"}

\* bug: the clear leaves the rows in place
clearSheetData_Nothing(rows) == rows

\* spreadsheets.values.clear on A2:Z: every data row is emptied; the rows
\* of the program have at most 18 columns
clearSheetData(rows) == <<>>

\* spreadsheets.values.update at A2: nothing is sent for no values, else
\* the rows 2.. of the tab are overwritten by the values and the rows
\* below them stay
writeToSheet(rows, values) ==
    IF values = <<>> THEN rows
    ELSE values \o SubSeq(rows, Len(values) + 1, Len(rows))

\* before: the number of data rows of the tab when the call was made
NoCall == [pc |-> "idle", values |-> <<>>, before |-> 0]

\* some triggers exist; the tab holds what an earlier run wrote
InitSheetWith(ts) ==
    /\ triggers = ts
    /\ sheet \in SeqsUpTo(RowTexts, MaxRows)
    /\ calls = [r \in ts |-> NoCall]
    /\ NoView
    /\ NoGet
    /\ NoReconciliation

\* runs come one after the other
InitSheet == InitSheetWith({"manual"})

\* runs of two triggers may overlap: nothing in a trigger, in
\* runReconciliation or in clearAndWriteSheet waits for another run
InitSheets == InitSheetWith(Triggers \ {"manual"})

\* clearAndWriteSheet(tabName, values) is called; the clear request leaves
CallClearAndWrite(r, values) ==
    /\ calls[r].pc \in {"idle", "returned", "failed"}
    /\ calls' = [calls EXCEPT ![r] = [pc |-> "clear", values |-> values,
                                      before |-> Len(sheet)]]
    /\ UNCHANGED <<sheet, triggers, viewVars, tokenVars, reconVars>>

\* the clear is done; the update request leaves
ClearDone(r) ==
    /\ calls[r].pc = "clear"
    /\ sheet' = clearSheetData(sheet)
    /\ calls' = [calls EXCEPT ![r].pc = "write"]
    /\ UNCHANGED <<triggers, viewVars, tokenVars, reconVars>>

\* the clear is rejected: 'Failed to clear sheet data' is thrown
ClearRejected(r) ==
    /\ calls[r].pc = "clear"
    /\ calls' = [calls EXCEPT ![r].pc = "failed"]
    /\ UNCHANGED <<sheet, triggers, viewVars, tokenVars, reconVars>>

\* the update is done and clearAndWriteSheet returns
WriteDone(r) ==
    /\ calls[r].pc = "write"
    /\ sheet' = writeToSheet(sheet, calls[r].values)
    /\ calls' = [calls EXCEPT ![r].pc = "returned"]
    /\ UNCHANGED <<triggers, viewVars, tokenVars, reconVars>>

\* the update is rejected: 'Failed to write to sheet' is thrown; with no
\* values no request is sent and nothing can be rejected
WriteRejected(r) ==
    /\ calls[r].pc = "write"
    /\ calls[r].values # <<>>
    /\ calls' = [calls EXCEPT ![r].pc = "failed"]
    /\ UNCHANGED <<sheet, triggers, viewVars, tokenVars, reconVars>>

NextSheet ==
    \/ \E r \in triggers, values \in SeqsUpTo(RowTexts, MaxRows) :
           CallClearAndWrite(r, values)
    \/ \E r \in triggers : ClearDone(r)
    \/ \E r \in triggers : ClearRejected(r)
    \/ \E r \in triggers : WriteDone(r)
    \/ \E r \in triggers : WriteRejected(r)

SpecSheet == InitSheet /\ [][NextSheet]_vars

SpecSheets == InitSheets /\ [][NextSheet]_vars

SheetTypeOK ==
    /\ sheet \in SeqsUpTo(RowTexts, MaxRows)
    /\ \A r \in triggers :
           /\ calls[r].pc \in {"idle", "clear", "write", "returned", "failed"}
           /\ calls[r].values \in SeqsUpTo(RowTexts, MaxRows)

\* C22: after clearAndWriteSheet(table, rows) has returned, the data rows
\* of the table are exactly rows, none of the rows the table had before
\* is left, and with no rows the table is empty.
C22_TableHoldsWrittenRows ==
    \A r \in triggers : calls[r].pc = "returned" => sheet = calls[r].values

\* the table held two rows and the call wrote one: one row is left
C22_Witness ==
    \E r \in triggers :
        /\ calls[r].pc = "returned"
        /\ calls[r].before = 2
        /\ Len(calls[r].values) = 1
        /\ sheet = calls[r].values

\* C21 (as claimed): runs started by different triggers never interleave
\* on a table: a run between its clear and its write is the only one
\* clearing or writing, so once the runs have ended the table holds
\* exactly the rows of one of them.
C21_RunsDoNotInterleave ==
    /\ Cardinality({r \in triggers : calls[r].pc \in {"clear", "write"}}) <= 1
    /\ (\A r \in triggers : calls[r].pc = "returned") =>
           \E r \in triggers : sheet = calls[r].values

----------------------------------------------------------------------------
(* The paginated views: handleShopifyPaginated, handleShiprocketPaginated, *)
(* handleShiprocketCutsPaginated and its variant without a cache           *)

ITEMS_PER_PAGE == 50

\* five minutes in milliseconds
CACHE_DURATION == 5 * 60 * 1000

\* the milliseconds Date.now() advances by in one step of the clock
ClockStep == 150000

\* the number of steps of the clock
MaxTicks == 3

Views == {"shopify", "shiprocket", "cuts", "cutsUncached"}

IsCuts(v) == v \in {"cuts", "cutsUncached"}

\* the sizes of the datasets a fetch may return
Sizes == {0, 1, ITEMS_PER_PAGE, ITEMS_PER_PAGE + 1, 2 * ITEMS_PER_PAGE + 1}

\* a dataset of n rows; a row is told from another by its number
Dataset(n) == [i \in 1..n |-> i]

\* parseInt of a query parameter: NaN when it is absent or not a number
ParsedNaN == [nan |-> TRUE, n |-> 0]

Parsed(n) == [nan |-> FALSE, n |-> n]

PageQueries == {ParsedNaN, Parsed(-1), Parsed(0), Parsed(1), Parsed(2), Parsed(3)}

PerPageQueries == {ParsedNaN, Parsed(-1), Parsed(2), Parsed(250)}

\* parseInt(...) || d
OrDefault(q, d) == IF q.nan \/ q.n = 0 THEN d ELSE q.n

MathMax(a, b) == IF a >= b THEN a ELSE b

MathMin(a, b) == IF a <= b THEN a ELSE b

\* Math.max(1, parseInt(req.query.page, 10) || 1)
PageOf(q) == MathMax(1, OrDefault(q, 1))

\* ITEMS_PER_PAGE, or Math.max(1, Math.min(200, parseInt(per_page) || 50))
PerPageOf(v, q) ==
    IF IsCuts(v) THEN MathMax(1, MathMin(200, OrDefault(q, 50)))
    ELSE ITEMS_PER_PAGE

\* bug: the last, shorter page is not counted
MathCeil_Floor(n, d) == n \div d

\* Math.ceil(n / d) for n >= 0 and d >= 1
MathCeil(n, d) == (n + d - 1) \div d

\* Array.prototype.slice(start, end) for 0 <= start
slice(arr, start, end) ==
    IF start >= Len(arr) \/ end <= start THEN <<>>
    ELSE SubSeq(arr, start + 1, MathMin(end, Len(arr)))

\* the cuts view turns a row into an object of its eleven columns; a row
\* is known here by its number only, kept as order_id
Item(v, row) == IF IsCuts(v) THEN [order_id |-> row] ELSE row

Items(v, rows) == [k \in DOMAIN rows |-> Item(v, rows[k])]

ViewAnswer(status, items, page, perPage, totalItems, totalPages, hasNext) ==
    [status |-> status, items |-> items, page |-> page, perPage |-> perPage,
     totalItems |-> totalItems, totalPages |-> totalPages, hasNext |-> hasNext]

\* the bodies of the 400, 408 and 500 answers carry no page
ViewError(status) == ViewAnswer(status, <<>>, 1, 50, 0, 0, FALSE)

NoViewAnswer == ViewError(0)

\* the answer computed from the dataset: 400 from the views of fixed page
\* size when the page is beyond the last one
Paginate(v, data, page, perPage) ==
    LET totalItems == Len(data)
        totalPages == MathCeil(totalItems, perPage)
        startIndex == (page - 1) * perPage
        endIndex   == startIndex + perPage
    IN  IF ~IsCuts(v) /\ page > totalPages /\ totalPages > 0
        THEN ViewError(400)
        ELSE ViewAnswer(200, Items(v, slice(data, startIndex, endIndex)), page,
                        perPage, totalItems, totalPages, page < totalPages)

\* bug: a dataset of exactly five minutes is fetched again
NeedsFetch_AtFiveMinutes(v, cached, timestamp, t) ==
    v = "cutsUncached" \/ cached = <<>> \/ t - timestamp >= CACHE_DURATION

\* !cached || Date.now() - cachedTimestamp > CACHE_DURATION; the variant
\* without a cache always fetches
NeedsFetch(v, cached, timestamp, t) ==
    v = "cutsUncached" \/ cached = <<>> \/ t - timestamp > CACHE_DURATION

\* res.status(...).json(...) behind !res.headersSent, or throwing
\* ERR_HTTP_HEADERS_SENT into the guarded catch
ViewSend(sent, answer) == IF sent.status # 0 THEN sent ELSE answer

NoViewRequest ==
    [pc |-> "idle", page |-> ParsedNaN, per_page |-> ParsedNaN,
     timer |-> "none", outcome |-> "none", data |-> <<>>]

InitView ==
    /\ view \in Views
    /\ cachedData = <<>>
    /\ cachedTimestamp = 0
    /\ now = 0
    /\ viewReq = NoViewRequest
    /\ viewResponse = NoViewAnswer
    /\ NoSheet
    /\ NoGet
    /\ NoReconciliation

\* a request arrives: it is answered from the cache at once, or the fetch
\* is awaited with the timer armed
ViewRequest(p, q) ==
    /\ viewReq.pc \in {"idle", "answered"}
    /\ IF NeedsFetch(view, cachedData, cachedTimestamp, now)
       THEN /\ viewReq' = [pc |-> "fetch", page |-> p, per_page |-> q,
                           timer |-> "armed", outcome |-> "none", data |-> <<>>]
            /\ viewResponse' = NoViewAnswer
       ELSE /\ viewReq' = [pc |-> "answered", page |-> p, per_page |-> q,
                           timer |-> "cleared", outcome |-> "cached",
                           data |-> cachedData[1]]
            /\ viewResponse' = Paginate(view, cachedData[1], PageOf(p),
                                        PerPageOf(view, q))
    /\ UNCHANGED <<view, cachedData, cachedTimestamp, now, sheetVars,
                   tokenVars, reconVars>>

\* the fetch returns n rows: the cache and its timestamp are set, the
\* timer is cleared and the page is answered unless the 408 went out
FetchDone(n) ==
    /\ viewReq.pc = "fetch"
    /\ IF view = "cutsUncached"
       THEN UNCHANGED <<cachedData, cachedTimestamp>>
       ELSE /\ cachedData' = <<Dataset(n)>>
            /\ cachedTimestamp' = now
    /\ viewReq' = [viewReq EXCEPT !.pc = "answered", !.outcome = "fetched",
                                  !.data = Dataset(n),
                                  !.timer = IF @ = "armed" THEN "cleared" ELSE @]
    /\ viewResponse' = ViewSend(viewResponse,
                                Paginate(view, Dataset(n), PageOf(viewReq.page),
                                         PerPageOf(view, viewReq.per_page)))
    /\ UNCHANGED <<view, now, sheetVars, tokenVars, reconVars>>

\* the fetch throws: the catch answers 500 unless the 408 went out
FetchFailure ==
    /\ viewReq.pc = "fetch"
    /\ viewReq' = [viewReq EXCEPT !.pc = "answered", !.outcome = "failed",
                                  !.timer = IF @ = "armed" THEN "cleared" ELSE @]
    /\ viewResponse' = ViewSend(viewResponse, ViewError(500))
    /\ UNCHANGED <<view, cachedData, cachedTimestamp, now, sheetVars,
                   tokenVars, reconVars>>

\* the timer of the handler fires during the fetch; the variant without a
\* cache has no timer
ViewTimeout ==
    /\ viewReq.pc = "fetch"
    /\ viewReq.timer = "armed"
    /\ view # "cutsUncached"
    /\ viewReq' = [viewReq EXCEPT !.timer = "fired"]
    /\ viewResponse' = ViewSend(viewResponse, ViewError(408))
    /\ UNCHANGED <<view, cachedData, cachedTimestamp, now, sheetVars,
                   tokenVars, reconVars>>

\* time passes
Tick ==
    /\ now < MaxTicks * ClockStep
    /\ now' = now + ClockStep
    /\ UNCHANGED <<view, cachedData, cachedTimestamp, viewReq, viewResponse,
                   sheetVars, tokenVars, reconVars>>

NextView ==
    \/ \E p \in PageQueries, q \in PerPageQueries :
           /\ (IsCuts(view) \/ q = ParsedNaN)
           /\ ViewRequest(p, q)
    \/ \E n \in Sizes : FetchDone(n)
    \/ FetchFailure
    \/ ViewTimeout
    \/ Tick

SpecView == InitView /\ [][NextView]_vars

ViewTypeOK ==
    /\ view \in Views
    /\ cachedData \in {<<>>} \cup {<<Dataset(n)>> : n \in Sizes}
    /\ cachedTimestamp \in 0..now
    /\ now \in 0..(MaxTicks * ClockStep)
    /\ viewReq.pc \in {"idle", "fetch", "answered"}
    /\ viewResponse.status \in {0, 200, 400, 408, 500}

\* the pages 1..p of the dataset, one after the other
RECURSIVE PagesUpTo(_, _, _, _)
PagesUpTo(v, data, perPage, p) ==
    IF p = 0 THEN <<>>
    ELSE PagesUpTo(v, data, perPage, p - 1) \o Paginate(v, data, p, perPage).items

\* C25: a page answered for a dataset of N rows reports totalItems = N and
\* totalPages = ceil(N / perPage); a page p of 1..totalPages holds the rows
\* at positions (p-1)*perPage+1 .. min(p*perPage, N) in their order, with
\* hasNext = (p < totalPages); the pages 1..totalPages one after the other
\* are the dataset.
C25_PagesWindowTheDataset ==
    viewResponse.status = 200 =>
        LET data    == viewReq.data
            N       == Len(data)
            perPage == viewResponse.perPage
            p       == viewResponse.page
            last    == MathMin(p * perPage, N)
        IN  /\ perPage = PerPageOf(view, viewReq.per_page)
            /\ viewResponse.totalItems = N
            /\ (viewResponse.totalPages - 1) * perPage < N
            /\ N <= viewResponse.totalPages * perPage
            /\ (p \in 1..viewResponse.totalPages =>
                   /\ viewResponse.items =
                          [k \in 1..(last - (p - 1) * perPage) |->
                               Item(view, data[(p - 1) * perPage + k])]
                   /\ viewResponse.hasNext = (p < viewResponse.totalPages))
            /\ PagesUpTo(view, data, perPage, viewResponse.totalPages)
                   = Items(view, data)

\* the second of the three pages of 101 orders: fifty rows and more to come
C25_Witness ==
    /\ view = "shopify"
    /\ viewResponse.status = 200
    /\ viewResponse.page = 2
    /\ viewResponse.totalItems = 2 * ITEMS_PER_PAGE + 1
    /\ viewResponse.totalPages = 3
    /\ Len(viewResponse.items) = ITEMS_PER_PAGE
    /\ viewResponse.hasNext

\* C30: a view calls its fetch collaborator only when no dataset is cached
\* or the cached one is older than five minutes, and otherwise serves the
\* cached dataset; a fetch that fails leaves the cached dataset and its
\* timestamp as they were; the two are never updated one without the other.
C30_CacheServedAndKeptWhole ==
    [][/\ (viewReq.pc # "fetch" /\ viewReq'.pc = "fetch") =>
              (cachedData = <<>> \/ now - cachedTimestamp > CACHE_DURATION)
       /\ (viewReq.pc # "fetch" /\ viewReq'.pc = "answered" /\ viewReq' # viewReq) =>
              /\ cachedData # <<>>
              /\ now - cachedTimestamp <= CACHE_DURATION
              /\ viewReq'.data = cachedData[1]
              /\ UNCHANGED <<cachedData, cachedTimestamp>>
       /\ viewReq'.outcome = "failed" => UNCHANGED <<cachedData, cachedTimestamp>>
       /\ (cachedData' # cachedData \/ cachedTimestamp' # cachedTimestamp) =>
              /\ viewReq.pc = "fetch"
              /\ viewReq'.outcome = "fetched"
              /\ cachedData' = <<viewReq'.data>>
              /\ cachedTimestamp' = now
      ]_vars

\* a dataset of exactly five minutes is served from the cache
C30_Witness ==
    /\ viewReq.outcome = "cached"
    /\ now - cachedTimestamp = CACHE_DURATION
    /\ viewResponse.status = 200

----------------------------------------------------------------------------
(* shiprocketGet and login of src/src/shiprocket.js. A token is the number *)
(* of the login that issued it; 0 is the null of the empty cache.          *)

\* the number of tokens the API issues
MaxLogins == 3

\* the callers of shiprocketGet that calculatePerOrderCuts runs under one
\* Promise.all
Callers == {"getShipments", "getStatementDetails"}

\* how a request fails: a response with a status, or no response at all
Failures == {"401", "500", "network"}

\* error.message of the HTTP client
AxiosMessage(f) ==
    IF f = "network" THEN "Network Error"
    ELSE "Request failed with status code " \o f

\* bug: any response with an error status is taken for an expired token
IsUnauthorized_AnyResponse(f) == f # "network"

\* error.response && error.response.status === 401
IsUnauthorized(f) == f = "401"

\* the error of the first request when it is not a 401: the body has no
\* message of its own
ApiError(f) ==
    IF f = "network" THEN "Shiprocket network error: " \o AxiosMessage(f)
    ELSE "Shiprocket API error (" \o f \o "): " \o AxiosMessage(f)

RetryError(f) ==
    "Shiprocket API call failed after token refresh: " \o AxiosMessage(f)

LoginError == "Shiprocket login failed: " \o AxiosMessage("401")

\* requests: the tokens of the GET requests sent by the call; first and
\* second: how they failed; relogin: the token of the login after a 401
NoGetCall ==
    [pc |-> "idle", token |-> 0, requests |-> <<>>, first |-> "none",
     second |-> "none", relogin |-> 0, raised |-> ""]

InitGet ==
    /\ cachedToken = 0
    /\ logins = 0
    /\ gets = [c \in Callers |-> NoGetCall]
    /\ NoSheet
    /\ NoView
    /\ NoReconciliation

\* shiprocketGet is called: login() returns the cached token and the
\* request leaves with it, or the login request leaves
GetCall(c) ==
    /\ gets[c].pc \in {"idle", "returned", "thrown"}
    /\ gets' = [gets EXCEPT ![c] =
                   IF cachedToken # 0
                   THEN [NoGetCall EXCEPT !.pc = "get1", !.token = cachedToken,
                                          !.requests = <<cachedToken>>]
                   ELSE [NoGetCall EXCEPT !.pc = "login1"]]
    /\ UNCHANGED <<cachedToken, logins, sheetVars, viewVars, reconVars>>

\* the login answers with a token: it is cached and the request leaves
\* with it
LoginDone(c) ==
    /\ gets[c].pc \in {"login1", "login2"}
    /\ logins < MaxLogins
    /\ logins' = logins + 1
    /\ cachedToken' = logins + 1
    /\ gets' = [gets EXCEPT ![c].pc = IF @ = "login1" THEN "get1" ELSE "get2",
                            ![c].token = logins + 1,
                            ![c].relogin = IF gets[c].pc = "login2"
                                           THEN logins + 1 ELSE 0,
                            ![c].requests = Append(@, logins + 1)]
    /\ UNCHANGED <<sheetVars, viewVars, reconVars>>

\* the login fails: its error leaves shiprocketGet
LoginFailure(c) ==
    /\ gets[c].pc \in {"login1", "login2"}
    /\ gets' = [gets EXCEPT ![c].pc = "thrown", ![c].raised = LoginError]
    /\ UNCHANGED <<cachedToken, logins, sheetVars, viewVars, reconVars>>

\* a request is answered with the data
GetDone(c) ==
    /\ gets[c].pc \in {"get1", "get2"}
    /\ gets' = [gets EXCEPT ![c].pc = "returned"]
    /\ UNCHANGED <<cachedToken, logins, sheetVars, viewVars, reconVars>>

\* the first request fails: on a 401 the cached token is dropped and
\* login() is called, which finds no token and sends the login request;
\* any other failure is thrown
FirstFailure(c, f) ==
    /\ gets[c].pc = "get1"
    /\ IF IsUnauthorized(f)
       THEN /\ cachedToken' = 0
            /\ gets' = [gets EXCEPT ![c].pc = "login2", ![c].first = f]
       ELSE /\ gets' = [gets EXCEPT ![c].pc = "thrown", ![c].first = f,
                                    ![c].raised = ApiError(f)]
            /\ UNCHANGED cachedToken
    /\ UNCHANGED <<logins, sheetVars, viewVars, reconVars>>

\* the repeated request fails, whatever the failure: it is thrown
RetryFailure(c, f) ==
    /\ gets[c].pc = "get2"
    /\ gets' = [gets EXCEPT ![c].pc = "thrown", ![c].second = f,
                            ![c].raised = RetryError(f)]
    /\ UNCHANGED <<cachedToken, logins, sheetVars, viewVars, reconVars>>

NextGet ==
    \/ \E c \in Callers : GetCall(c)
    \/ \E c \in Callers : LoginDone(c)
    \/ \E c \in Callers : LoginFailure(c)
    \/ \E c \in Callers : GetDone(c)
    \/ \E c \in Callers, f \in Failures : FirstFailure(c, f)
    \/ \E c \in Callers, f \in Failures : RetryFailure(c, f)

SpecGet == InitGet /\ [][NextGet]_vars

GetTypeOK ==
    /\ cachedToken \in 0..logins
    /\ logins \in 0..MaxLogins
    /\ \A c \in Callers :
           /\ gets[c].pc \in {"idle", "login1", "get1", "login2", "get2",
                              "returned", "thrown"}
           /\ gets[c].first \in Failures \cup {"none"}
           /\ gets[c].second \in Failures \cup {"none"}

\* C26: on a 401 shiprocketGet drops the cached token, logs in again and
\* repeats the request once with the token of that login; a call sends at
\* most two requests, throws the failure of the second one without another
\* try, and sends no second request after a failure that is not a 401.
C26_RetryOnceAfter401 ==
    /\ [](\A c \in Callers :
             LET g == gets[c] IN
             /\ Len(g.requests) <= 2
             /\ Len(g.requests) = 2 =>
                    /\ g.first = "401"
                    /\ g.relogin # 0
                    /\ g.requests[2] = g.relogin
                    /\ g.requests[2] # g.requests[1]
             /\ g.relogin # 0 => Len(g.requests) = 2
             /\ g.second # "none" =>
                    /\ g.pc = "thrown"
                    /\ g.raised = RetryError(g.second)
             /\ g.first \notin {"none", "401"} =>
                    /\ g.pc = "thrown"
                    /\ Len(g.requests) = 1
                    /\ g.raised = ApiError(g.first))
    /\ [][\A c \in Callers :
              (gets[c].pc = "get1" /\ gets'[c].first = "401") =>
                  /\ cachedToken' = 0
                  /\ gets'[c].pc = "login2"]_vars

\* two 401 in a row: the second request went out with the new token and
\* its failure was thrown
C26_Witness ==
    \E c \in Callers :
        /\ gets[c].pc = "thrown"
        /\ gets[c].first = "401"
        /\ gets[c].second = "401"
        /\ Len(gets[c].requests) = 2
        /\ gets[c].requests[2] = gets[c].relogin

====
